---- MODULE Spec2Model ----
(***************************************************************************)
(* Stroke-to-stamp pipeline of the painting canvas (Canvas.svelte, with    *)
(* Spline.ts and Brush.ts): path tracking, segment stamping, the live      *)
(* trail and the debounced flatten.                                        *)
(*                                                                         *)
(* Numbers.  Pointer coordinates are integers (pixels).  Pressures are in  *)
(* tenths (10 = 1.0).  A curve point evaluated at t = i/n is kept exactly  *)
(* as a pair of numerators over the denominator 2*n^3.  Math.hypot is the  *)
(* floor of the square root in the unit of its arguments.  Time is in      *)
(* milliseconds.                                                           *)
(***************************************************************************)
EXTENDS Integers, Sequences, FiniteSets

\* ---------------------------------------------------------------- bounds
MaxPoints == 3      \* points accepted in all strokes together
MantissaBits == 6   \* significant bits of a floating-point number
MaxSamples == 6     \* samples of catmullRomLength called on its own
MaxEvents == 3      \* pointer events dispatched to the input manager on its own
MaxChars == 7       \* characters of a string given to hexToRgb

\* ------------------------------------------------------ program constants
MinDist      == 4     \* Canvas.svelte:89
FlattenDelay == 500   \* Canvas.svelte:216
Samples      == 20    \* Spline.ts: catmullRomLength(..., samples = 20)

\* -------------------------------------------------------------- inputs
Pt(x, y) == [x |-> x, y |-> y]

\* the pointer samples the environment delivers: a position and a pressure
Sample(x, y, pr) == [pt |-> Pt(x, y), pr |-> pr]

PointerSamples == {Sample(0, 0, 10), Sample(6, 0, 10), Sample(4, 2, 0)}

\* what Math.random() returns in one handler call, in tenths: call k
\* (0-based) returns (seed + step * k) mod 10
RandomStreams == {[seed |-> 0, step |-> 0], [seed |-> 9, step |-> 3]}

Random(rnd, k) == (rnd.seed + rnd.step * k) % 10

\* ---------------------------------------------------------- arithmetic
Max(a, b) == IF a >= b THEN a ELSE b

CeilDiv(a, b) == (a + b - 1) \div b

RECURSIVE SqrtSearch(_, _, _)
SqrtSearch(n, lo, hi) ==
    IF lo >= hi THEN lo
    ELSE LET mid == (lo + hi + 1) \div 2
         IN  IF mid * mid <= n THEN SqrtSearch(n, mid, hi)
                               ELSE SqrtSearch(n, lo, mid - 1)

Abs(a) == IF a >= 0 THEN a ELSE 0 - a

\* Math.hypot(dx, dy), rounded down to the unit of dx and dy; along an axis
\* it is the absolute value, and elsewhere it is between the larger of |dx|
\* and |dy| and their sum
Hypot(dx, dy) ==
    IF dy = 0 THEN Abs(dx)
    ELSE IF dx = 0 THEN Abs(dy)
    ELSE SqrtSearch(dx * dx + dy * dy, Max(Abs(dx), Abs(dy)), Abs(dx) + Abs(dy))

\* the distance test with half the threshold
TooCloseHalf(a, b) ==
    4 * ((a.x - b.x) * (a.x - b.x) + (a.y - b.y) * (a.y - b.y)) < MinDist * MinDist

\* Math.hypot(a.x - b.x, a.y - b.y) < 4 on integer points
TooClose(a, b) ==
    (a.x - b.x) * (a.x - b.x) + (a.y - b.y) * (a.y - b.y) < MinDist * MinDist

\* -------------------------------------------------- floating-point numbers
RECURSIVE Pow2(_)
Pow2(k) == IF k = 0 THEN 1 ELSE 2 * Pow2(k - 1)

\* the exponent of the unit in the last place of v > 0
RECURSIVE Exponent(_, _)
Exponent(v, e) ==
    IF v \div Pow2(e) < Pow2(MantissaBits) THEN e ELSE Exponent(v, e + 1)

\* the result of an arithmetic operation whose exact value is the integer v:
\* v rounded to MantissaBits significant bits, ties to even
Fl(v) ==
    LET m    == Abs(v)
        unit == Pow2(Exponent(m, 0))
        q    == m \div unit
        rem  == m % unit
        up   == 2 * rem > unit \/ (2 * rem = unit /\ q % 2 = 1)
        r    == (IF up THEN q + 1 ELSE q) * unit
    IN  IF v >= 0 THEN r ELSE 0 - r

\* ------------------------------------------------------------ Spline.ts
\* one coordinate of catmullRomPoint with 4 * p1 for 5 * p1
catmullRomFloatTension(t, a0, a1, a2, a3) ==
    LET t2 == Fl(t * t)
        t3 == Fl(t2 * t)
        c1 == Fl(Fl((0 - a0) + a2) * t)
        c2 == Fl(Fl(Fl(Fl(Fl(2 * a0) - Fl(4 * a1)) + Fl(4 * a2)) - a3) * t2)
        c3 == Fl(Fl(Fl(Fl((0 - a0) + Fl(3 * a1)) - Fl(3 * a2)) + a3) * t3)
    IN  Fl(Fl(Fl(Fl(2 * a1) + c1) + c2) + c3)

\* one coordinate of catmullRomPoint as the floating-point operations compute
\* it, for integers t and a0..a3; the result is the sum before the last
\* multiplication by 0.5 (which is exact), so it is twice the coordinate
catmullRomFloat(t, a0, a1, a2, a3) ==
    LET t2 == Fl(t * t)
        t3 == Fl(t2 * t)
        c1 == Fl(Fl((0 - a0) + a2) * t)
        c2 == Fl(Fl(Fl(Fl(Fl(2 * a0) - Fl(5 * a1)) + Fl(4 * a2)) - a3) * t2)
        c3 == Fl(Fl(Fl(Fl((0 - a0) + Fl(3 * a1)) - Fl(3 * a2)) + a3) * t3)
    IN  Fl(Fl(Fl(Fl(2 * a1) + c1) + c2) + c3)

\* one coordinate of the straight line from p1 to p2 at t = i/n
catmullRomCoordLinear(i, n, a0, a1, a2, a3) ==
    2 * a1 * n * n * n + 2 * (a2 - a1) * i * n * n

\* one coordinate of catmullRomPoint at t = i/n, as a numerator over 2*n^3
catmullRomCoord(i, n, a0, a1, a2, a3) ==
      2 * a1 * n * n * n
    + (a2 - a0) * i * n * n
    + (2 * a0 - 5 * a1 + 4 * a2 - a3) * i * i * n
    + (3 * a1 - a0 - 3 * a2 + a3) * i * i * i

catmullRomPoint(i, n, p0, p1, p2, p3) ==
    [x |-> catmullRomCoord(i, n, p0.x, p1.x, p2.x, p3.x),
     y |-> catmullRomCoord(i, n, p0.y, p1.y, p2.y, p3.y),
     d |-> 2 * n * n * n]

RECURSIVE catmullRomLengthFrom(_, _, _, _, _, _, _)
catmullRomLengthFrom(i, prev, p0, p1, p2, p3, samples) ==
    IF i > samples THEN 0
    ELSE LET curr == catmullRomPoint(i, samples, p0, p1, p2, p3)
         IN  Hypot(curr.x - prev.x, curr.y - prev.y)
             + catmullRomLengthFrom(i + 1, curr, p0, p1, p2, p3, samples)

\* the estimated length without the step from p1 to the first sample
catmullRomLengthShort(p0, p1, p2, p3, samples) ==
    catmullRomLengthFrom(2, catmullRomPoint(1, samples, p0, p1, p2, p3),
                         p0, p1, p2, p3, samples)

\* the mean of the steps instead of their sum
catmullRomLengthMean(p0, p1, p2, p3, samples) ==
    catmullRomLengthFrom(1, catmullRomPoint(0, samples, p0, p1, p2, p3),
                         p0, p1, p2, p3, samples) \div samples

\* the estimated length, as a numerator over 2*samples^3
catmullRomLength(p0, p1, p2, p3, samples) ==
    catmullRomLengthFrom(1, catmullRomPoint(0, samples, p0, p1, p2, p3),
                         p0, p1, p2, p3, samples)

\* ------------------------------------------------------------- Brush.ts
\* spacing and jitter in hundredths, alpha and the grain settings in tenths
NewBrush ==
    [texture      |-> "EMPTY",
     grainTexture |-> "EMPTY",
     spacing      |-> 5,
     jitter       |-> 0,
     grainScale   |-> 10,
     grainIntensity |-> 5,
     size         |-> 50,
     color        |-> "#000000",
     alpha        |-> 10]

\* ------------------------------------------------------------ variables
VARIABLES
    isDrawing,        \* a stroke is active
    pathPoints,       \* accepted points of the active stroke
    pressurePoints,   \* their pressures
    brush,            \* the Brush object
    sprites,          \* the PIXI.Sprite objects not yet destroyed, by identity
    trail,            \* identities of the sprites of the live trail
    stage,            \* children of app.stage, in draw order (0 = permanentSprite)
    permanentSprite,  \* texture of the persistent surface
    flattenTimeout,   \* last timer id returned by setTimeout (0 = undefined)
    timers,           \* the pending timers of the event loop
    endLog,           \* times and flatten runs since the last onDrawEnd
    accepted,         \* number of points accepted so far, in all strokes
    staleDestroys,    \* destroy() calls on a sprite that was destroyed before
    thrown,           \* the error the last handler let escape ("none" if none)
    lastOp,           \* the handler that ran last
    lifecycle,        \* how far onMount has come, and the input manager
    args,             \* the arguments of a function called on its own
    out               \* what that call returned

vars == <<isDrawing, pathPoints, pressurePoints, brush, sprites, trail, stage,
          permanentSprite, flattenTimeout, timers, endLog, accepted, staleDestroys, thrown, lastOp,
          lifecycle, args, out>>

pathVars  == <<isDrawing, pathPoints, pressurePoints>>
stageVars == <<sprites, trail, stage, permanentSprite, staleDestroys>>
timerVars == <<flattenTimeout, timers>>
callVars  == <<args, out>>

NoPoint == Pt(0 - 1, 0 - 1)

\* what is remembered of the handler that ran last: its name, what
\* generateTexture did in it, and the sizes of the persistent content and of
\* the trail it found
Op(name, raster) ==
    [op |-> name, raster |-> raster,
     prev    |-> IF name \in {"flatten", "clear"}
                 THEN Len(permanentSprite.content) ELSE 0,
     drained |-> IF name \in {"flatten", "clear"} THEN Len(trail) ELSE 0]

Range(f) == {f[k] : k \in DOMAIN f}

\* ------------------------------------------------- Canvas.svelte: stamping
\* paintBrush without the floor of 0.2 on the alpha of the stamp
paintBrushNoFloor(b, pos, prn, prd, rx, ry) ==
    LET actualPressure == IF prn > 0 THEN prn ELSE prd \div 2
        stampSize      == b.size * actualPressure
        jitter         == stampSize * b.jitter
        stamp == [kind  |-> "stamp",
                  texture |-> b.texture,
                  x     |-> pos.x, y |-> pos.y, d |-> pos.d,
                  jx    |-> (rx - 5) * jitter, jy |-> (ry - 5) * jitter,
                  jd    |-> 1000 * prd,
                  w     |-> stampSize, wd |-> prd,
                  a     |-> actualPressure * b.alpha,
                  ad    |-> 10 * prd,
                  color |-> b.color]
        grainSprite == [kind |-> "grain",
                  texture |-> b.grainTexture,
                  x     |-> pos.x, y |-> pos.y, d |-> pos.d,
                  jx    |-> (rx - 5) * jitter, jy |-> (ry - 5) * jitter,
                  jd    |-> 1000 * prd,
                  w     |-> stampSize * b.grainScale, wd |-> 10 * prd,
                  a     |-> b.grainIntensity * prd,
                  ad    |-> 10 * prd,
                  color |-> b.color]
    IN  IF b.grainTexture # "EMPTY" THEN <<grainSprite, stamp>> ELSE <<stamp>>

\* paintBrush with the jitter of the full stamp size, whatever the brush says
paintBrushJitterAlways(b, pos, prn, prd, rx, ry) ==
    LET actualPressure == IF prn > 0 THEN prn ELSE prd \div 2
        stampSize      == b.size * actualPressure
        jitter         == stampSize * 100
        stamp == [kind  |-> "stamp",
                  texture |-> b.texture,
                  x     |-> pos.x, y |-> pos.y, d |-> pos.d,
                  jx    |-> (rx - 5) * jitter, jy |-> (ry - 5) * jitter,
                  jd    |-> 1000 * prd,
                  w     |-> stampSize, wd |-> prd,
                  a     |-> Max(2 * prd, actualPressure * b.alpha),
                  ad    |-> 10 * prd,
                  color |-> b.color]
        grainSprite == [kind |-> "grain",
                  texture |-> b.grainTexture,
                  x     |-> pos.x, y |-> pos.y, d |-> pos.d,
                  jx    |-> (rx - 5) * jitter, jy |-> (ry - 5) * jitter,
                  jd    |-> 1000 * prd,
                  w     |-> stampSize * b.grainScale, wd |-> 10 * prd,
                  a     |-> b.grainIntensity * prd,
                  ad    |-> 10 * prd,
                  color |-> b.color]
    IN  IF b.grainTexture # "EMPTY" THEN <<grainSprite, stamp>> ELSE <<stamp>>

\* paintBrush pushing the grain sprite after the stamp
paintBrushGrainLast(b, pos, prn, prd, rx, ry) ==
    LET actualPressure == IF prn > 0 THEN prn ELSE prd \div 2
        stampSize      == b.size * actualPressure
        jitter         == stampSize * b.jitter
        stamp == [kind  |-> "stamp",
                  texture |-> b.texture,
                  x     |-> pos.x, y |-> pos.y, d |-> pos.d,
                  jx    |-> (rx - 5) * jitter, jy |-> (ry - 5) * jitter,
                  jd    |-> 1000 * prd,
                  w     |-> stampSize, wd |-> prd,
                  a     |-> Max(2 * prd, actualPressure * b.alpha),
                  ad    |-> 10 * prd,
                  color |-> b.color]
        grainSprite == [kind |-> "grain",
                  texture |-> b.grainTexture,
                  x     |-> pos.x, y |-> pos.y, d |-> pos.d,
                  jx    |-> (rx - 5) * jitter, jy |-> (ry - 5) * jitter,
                  jd    |-> 1000 * prd,
                  w     |-> stampSize * b.grainScale, wd |-> 10 * prd,
                  a     |-> b.grainIntensity * prd,
                  ad    |-> 10 * prd,
                  color |-> b.color]
    IN  IF b.grainTexture # "EMPTY" THEN <<stamp, grainSprite>> ELSE <<stamp>>

\* paintBrush with a displacement of twice the jitter
paintBrushWideJitter(b, pos, prn, prd, rx, ry) ==
    LET actualPressure == IF prn > 0 THEN prn ELSE prd \div 2
        stampSize      == b.size * actualPressure
        jitter         == 2 * stampSize * b.jitter
        stamp == [kind  |-> "stamp",
                  texture |-> b.texture,
                  x     |-> pos.x, y |-> pos.y, d |-> pos.d,
                  jx    |-> (rx - 5) * jitter, jy |-> (ry - 5) * jitter,
                  jd    |-> 1000 * prd,
                  w     |-> stampSize, wd |-> prd,
                  a     |-> Max(2 * prd, actualPressure * b.alpha),
                  ad    |-> 10 * prd,
                  color |-> b.color]
        grainSprite == [kind |-> "grain",
                  texture |-> b.grainTexture,
                  x     |-> pos.x, y |-> pos.y, d |-> pos.d,
                  jx    |-> (rx - 5) * jitter, jy |-> (ry - 5) * jitter,
                  jd    |-> 1000 * prd,
                  w     |-> stampSize * b.grainScale, wd |-> 10 * prd,
                  a     |-> b.grainIntensity * prd,
                  ad    |-> 10 * prd,
                  color |-> b.color]
    IN  IF b.grainTexture # "EMPTY" THEN <<grainSprite, stamp>> ELSE <<stamp>>

\* paintBrush(x, y, pressure): the sprites one stamp request creates, in the
\* order they are added to the stage and pushed on the trail.  pos is the
\* point on the spline, the pressure is prn / prd, rx and ry are the two
\* results of Math.random().  A sprite is at (x/d + jx/jd, y/d + jy/jd).
paintBrush(b, pos, prn, prd, rx, ry) ==
    LET actualPressure == IF prn > 0 THEN prn ELSE prd \div 2
        stampSize      == b.size * actualPressure
        jitter         == stampSize * b.jitter
        stamp == [kind  |-> "stamp",
                  texture |-> b.texture,
                  x     |-> pos.x, y |-> pos.y, d |-> pos.d,
                  jx    |-> (rx - 5) * jitter, jy |-> (ry - 5) * jitter,
                  jd    |-> 1000 * prd,
                  w     |-> stampSize, wd |-> prd,
                  a     |-> Max(2 * prd, actualPressure * b.alpha),
                  ad    |-> 10 * prd,
                  color |-> b.color]
        grainSprite == [kind |-> "grain",
                  texture |-> b.grainTexture,
                  x     |-> pos.x, y |-> pos.y, d |-> pos.d,
                  jx    |-> (rx - 5) * jitter, jy |-> (ry - 5) * jitter,
                  jd    |-> 1000 * prd,
                  w     |-> stampSize * b.grainScale, wd |-> 10 * prd,
                  a     |-> b.grainIntensity * prd,
                  ad    |-> 10 * prd,
                  color |-> b.color]
    IN  IF b.grainTexture # "EMPTY" THEN <<grainSprite, stamp>> ELSE <<stamp>>

\* spacing of drawSplineSegment with an average pressure of 0 left as it is
spacingOfZeroPressure(b, pressure1, pressure2) ==
    LET avgPressure == pressure1 + pressure2
        brushSize   == b.size * avgPressure
    IN  Max(2000, brushSize * b.spacing)

\* spacing of drawSplineSegment, in 1/2000; pressures in tenths
spacingOf(b, pressure1, pressure2) ==
    LET avgPressure    == pressure1 + pressure2            \* in twentieths
        actualPressure == IF avgPressure > 0 THEN avgPressure ELSE 10
        brushSize      == b.size * actualPressure          \* in twentieths
    IN  Max(2000, brushSize * b.spacing)

\* the denominator of the lengths catmullRomLength returns
lengthDen == 2 * Samples * Samples * Samples

\* catmullRomLength(p0, p1, p2, p3) for the control points that the pointer
\* samples can give, worked out once
SampleLengths ==
    LET pts == {smp.pt : smp \in PointerSamples}
    IN  {[c |-> c, length |-> catmullRomLength(c[1], c[2], c[3], c[4], Samples)] :
            c \in pts \X pts \X pts \X pts}

\* segmentLength of drawSplineSegment: catmullRomLength(p0, p1, p2, p3),
\* taken from the table when it is there
segmentLength(p0, p1, p2, p3) ==
    LET known == {e \in SampleLengths : e.c = <<p0, p1, p2, p3>>}
    IN  IF known = {} THEN catmullRomLength(p0, p1, p2, p3, Samples)
        ELSE (CHOOSE e \in known : TRUE).length

\* numSteps of drawSplineSegment without the floor of 1
numStepsNoFloor(b, p0, p1, p2, p3, pressure1, pressure2) ==
    LET spacing == spacingOf(b, pressure1, pressure2)
    IN  CeilDiv(segmentLength(p0, p1, p2, p3), (lengthDen \div 2000) * spacing)

\* numSteps of drawSplineSegment: ceil(segmentLength / spacing), the length
\* being over lengthDen (a multiple of 2000) and the spacing over 2000
numStepsOf(b, p0, p1, p2, p3, pressure1, pressure2) ==
    LET spacing == spacingOf(b, pressure1, pressure2)
    IN  Max(1, CeilDiv(segmentLength(p0, p1, p2, p3),
                       (lengthDen \div 2000) * spacing))

\* step i of the loop with the pressure of the first point at every step
stampRequestFlat(i, numSteps, p0, p1, p2, p3, pressure1, pressure2) ==
    [pos |-> catmullRomPoint(i, numSteps, p0, p1, p2, p3),
     prn |-> pressure1 * numSteps,
     prd |-> 10 * numSteps]

\* step i of the loop of drawSplineSegment: the arguments of paintBrush, the
\* point on the spline at t = i / numSteps and the interpolated pressure
\* prn / prd (pressure1 and pressure2 are in tenths)
stampRequest(i, numSteps, p0, p1, p2, p3, pressure1, pressure2) ==
    [pos |-> catmullRomPoint(i, numSteps, p0, p1, p2, p3),
     prn |-> pressure1 * numSteps + (pressure2 - pressure1) * i,
     prd |-> 10 * numSteps]

\* for (let i = 0; i <= numSteps; i++) { ... paintBrush(...) }: the sprites
\* of the steps i..last, in order (the range is halved instead of walked, so
\* that a hundred steps do not nest a hundred evaluations)
RECURSIVE stampLoop(_, _, _, _, _, _, _, _, _, _, _)
stampLoop(i, last, numSteps, b, rnd, p0, p1, p2, p3, pressure1, pressure2) ==
    IF i > last THEN << >>
    ELSE IF i = last
    THEN LET req == stampRequest(i, numSteps, p0, p1, p2, p3,
                                 pressure1, pressure2)
         IN  paintBrush(b, req.pos, req.prn, req.prd,
                        Random(rnd, 2 * i), Random(rnd, 2 * i + 1))
    ELSE LET mid == (i + last) \div 2
         IN  stampLoop(i, mid, numSteps, b, rnd, p0, p1, p2, p3,
                       pressure1, pressure2)
             \o stampLoop(mid + 1, last, numSteps, b, rnd, p0, p1, p2, p3,
                          pressure1, pressure2)

\* the calls of paintBrush that the steps i..last of the loop make, in order
RECURSIVE stampRequests(_, _, _, _, _, _, _, _, _)
stampRequests(i, last, numSteps, p0, p1, p2, p3, pressure1, pressure2) ==
    IF i > last THEN << >>
    ELSE IF i = last
    THEN <<stampRequest(i, numSteps, p0, p1, p2, p3, pressure1, pressure2)>>
    ELSE LET mid == (i + last) \div 2
         IN  stampRequests(i, mid, numSteps, p0, p1, p2, p3,
                           pressure1, pressure2)
             \o stampRequests(mid + 1, last, numSteps, p0, p1, p2, p3,
                              pressure1, pressure2)

\* drawSplineSegment: the sprites it creates, in order; rnd is what
\* Math.random() returns during the call
drawSplineSegment(b, rnd, p0, p1, p2, p3, pressure1, pressure2) ==
    LET numSteps == numStepsOf(b, p0, p1, p2, p3, pressure1, pressure2)
    IN  stampLoop(0, numSteps, numSteps, b, rnd, p0, p1, p2, p3,
                  pressure1, pressure2)

\* app.stage.addChild(s); trail.push(s) for each new sprite
\* identities for n new objects, distinct from every object still referenced
FreshIds(n) ==
    LET used == DOMAIN sprites \cup Range(trail) \cup Range(stage)
        top  == IF used = {} THEN 0 ELSE CHOOSE m \in used : \A u \in used : u <= m
    IN  [k \in 1..n |-> top + k]

AddSprites(segment) ==
    \E new \in {segment} :
        LET ids == FreshIds(Len(new))
        IN  /\ sprites' = [id \in DOMAIN sprites \cup Range(ids) |->
                             IF id \in DOMAIN sprites THEN sprites[id]
                             ELSE new[CHOOSE k \in DOMAIN ids : ids[k] = id]]
            /\ trail'   = trail \o ids
            /\ stage'   = stage \o ids
            /\ UNCHANGED staleDestroys

\* the drain with "if" for "while": only the last sprite is popped
DrainTrailOnce ==
    LET last == IF trail = << >> THEN {} ELSE {trail[Len(trail)]}
    IN  /\ sprites' = [id \in DOMAIN sprites \ last |-> sprites[id]]
        /\ stage'   = SelectSeq(stage, LAMBDA c : c \notin last)
        /\ UNCHANGED staleDestroys
        /\ trail'   = IF trail = << >> THEN trail ELSE SubSeq(trail, 1, Len(trail) - 1)

\* while (trail.length) { trail.pop().destroy() }: destroy() ends the sprite
\* and removes it from its parent
DrainTrail ==
    /\ sprites' = [id \in DOMAIN sprites \ Range(trail) |-> sprites[id]]
    /\ stage'   = SelectSeq(stage, LAMBDA c : c \notin Range(trail))
    /\ staleDestroys' = staleDestroys
           + Cardinality({j \in DOMAIN trail :
                 \/ trail[j] \notin DOMAIN sprites
                 \/ \E k \in DOMAIN trail : k > j /\ trail[k] = trail[j]})
    /\ trail'   = << >>

\* ----------------------------------------------- Canvas.svelte: handlers
\* element k (0-based) of a JavaScript array, or the fallback when undefined
ElemOr(arr, k, other) == IF k >= 0 /\ k < Len(arr) THEN arr[k + 1] ELSE other

\* a || b on numbers
NumOr(a, b) == IF a # 0 THEN a ELSE b

Min(a, b) == IF a <= b THEN a ELSE b

\* the clock advances in steps of half the flatten delay
TickMs == FlattenDelay \div 2

\* elapsed times are counted up to here: "longer ago than the delay"
LongAgo == FlattenDelay + TickMs

\* setTimeout(flatten, delay): a new pending timer, under an id no pending
\* timer has
SetTimeout(pending, delay) ==
    LET id == CHOOSE n \in 1..(Cardinality(pending) + 1) :
                  /\ \A t \in pending : t.id # n
                  /\ \A m \in 1..(n - 1) : \E t \in pending : t.id = m
    IN  [id |-> id, left |-> delay]

\* clearTimeout(id)
ClearTimeout(pending, id) == {t \in pending : t.id # id}

\* scheduleFlatten() without the clearTimeout
scheduleFlattenNoCancel ==
    LET timer == SetTimeout(timers, FlattenDelay)
    IN  /\ timers' = timers \cup {timer}
        /\ flattenTimeout' = timer.id

\* scheduleFlatten() that only cancels when a timer is pending
scheduleFlattenToggle ==
    IF flattenTimeout # 0 /\ ClearTimeout(timers, flattenTimeout) # timers
    THEN /\ timers' = ClearTimeout(timers, flattenTimeout)
         /\ flattenTimeout' = flattenTimeout
    ELSE LET timer == SetTimeout(timers, FlattenDelay)
         IN  /\ timers' = timers \cup {timer}
             /\ flattenTimeout' = timer.id

\* scheduleFlatten() that cancels the pending timer and sets none
scheduleFlattenCancelOnly ==
    /\ timers' = IF flattenTimeout # 0 THEN ClearTimeout(timers, flattenTimeout)
                                       ELSE timers
    /\ flattenTimeout' = flattenTimeout

\* scheduleFlatten(): clearTimeout of the remembered id, then setTimeout
scheduleFlatten ==
    LET kept  == IF flattenTimeout # 0 THEN ClearTimeout(timers, flattenTimeout)
                                       ELSE timers
        timer == SetTimeout(kept, FlattenDelay)
    IN  /\ timers' = kept \cup {timer}
        /\ flattenTimeout' = timer.id

\* onDrawStart(event)
onDrawStart(ev) ==
    /\ accepted < MaxPoints
    /\ accepted' = accepted + 1
    /\ isDrawing' = TRUE
    /\ pathPoints' = <<ev.pt>>
    /\ pressurePoints' = <<ev.pr>>
    /\ lastOp' = Op("start", "none")
    /\ thrown' = "none"
    /\ UNCHANGED <<brush, lifecycle, callVars, stageVars, timerVars, endLog>>

OnDrawStart == \E ev \in PointerSamples : onDrawStart(ev)

\* the segment of onDrawMove without the branch for a path of two points
MoveSegmentNoFirst(pts, prs, rnd) ==
    LET i  == Len(pts) - 2
        p1 == ElemOr(pts, i, NoPoint)
        p0 == ElemOr(pts, i - 1, p1)
        p2 == ElemOr(pts, i + 1, NoPoint)
        p3 == ElemOr(pts, i + 2, p2)
    IN  IF i < 1 THEN << >>
        ELSE drawSplineSegment(brush, rnd, p0, p1, p2, p3,
                               ElemOr(prs, i, 0), ElemOr(prs, i + 1, 0))

\* the segment an accepted onDrawMove stamps, given the path after the push
MoveSegment(pts, prs, rnd) ==
    IF Len(pts) = 2
    THEN drawSplineSegment(brush, rnd, pts[1], pts[1], pts[2], pts[2],
                           prs[1], prs[2])
    ELSE LET i  == Len(pts) - 2
             p1 == ElemOr(pts, i, NoPoint)
             p0 == ElemOr(pts, i - 1, p1)
             p2 == ElemOr(pts, i + 1, NoPoint)
             p3 == ElemOr(pts, i + 2, p2)
         IN  IF i < 1 THEN << >>
             ELSE drawSplineSegment(brush, rnd, p0, p1, p2, p3,
                                    ElemOr(prs, i, 0), ElemOr(prs, i + 1, 0))

\* onDrawMove(event) without the push on pressurePoints
onDrawMoveNoPressure(ev) ==
    /\ lastOp' = Op("move", "none")
    /\ thrown' = "none"
    /\ UNCHANGED <<brush, lifecycle, callVars, permanentSprite, timerVars, endLog>>
    /\ IF ~isDrawing
       THEN UNCHANGED <<pathVars, sprites, trail, stage, staleDestroys, accepted>>
       ELSE IF TooClose(ev.pt, pathPoints[Len(pathPoints)])
       THEN UNCHANGED <<pathVars, sprites, trail, stage, staleDestroys, accepted>>
       ELSE /\ accepted < MaxPoints
            /\ accepted' = accepted + 1
            /\ pathPoints' = Append(pathPoints, ev.pt)
            /\ UNCHANGED <<pressurePoints, isDrawing>>
            /\ \E rnd \in RandomStreams :
                   AddSprites(MoveSegment(pathPoints',
                                          Append(pressurePoints, ev.pr), rnd))

\* onDrawMove(event) putting the pressure in front of the others
onDrawMovePressureFirst(ev) ==
    /\ lastOp' = Op("move", "none")
    /\ thrown' = "none"
    /\ UNCHANGED <<brush, lifecycle, callVars, permanentSprite, timerVars, endLog>>
    /\ IF ~isDrawing
       THEN UNCHANGED <<pathVars, sprites, trail, stage, staleDestroys, accepted>>
       ELSE IF TooClose(ev.pt, pathPoints[Len(pathPoints)])
       THEN UNCHANGED <<pathVars, sprites, trail, stage, staleDestroys, accepted>>
       ELSE /\ accepted < MaxPoints
            /\ accepted' = accepted + 1
            /\ pathPoints' = Append(pathPoints, ev.pt)
            /\ pressurePoints' = <<ev.pr>> \o pressurePoints
            /\ isDrawing' = isDrawing
            /\ \E rnd \in RandomStreams :
                   AddSprites(MoveSegment(pathPoints', pressurePoints', rnd))

\* onDrawMove(event)
onDrawMove(ev) ==
    /\ lastOp' = Op("move", "none")
    /\ thrown' = "none"
    /\ UNCHANGED <<brush, lifecycle, callVars, permanentSprite, timerVars, endLog>>
    /\ IF ~isDrawing
       THEN UNCHANGED <<pathVars, sprites, trail, stage, staleDestroys, accepted>>
       ELSE IF TooClose(ev.pt, pathPoints[Len(pathPoints)])
       THEN UNCHANGED <<pathVars, sprites, trail, stage, staleDestroys, accepted>>
       ELSE /\ accepted < MaxPoints
            /\ accepted' = accepted + 1
            /\ pathPoints' = Append(pathPoints, ev.pt)
            /\ pressurePoints' = Append(pressurePoints, ev.pr)
            /\ isDrawing' = isDrawing
            /\ \E rnd \in RandomStreams :
                   AddSprites(MoveSegment(pathPoints', pressurePoints', rnd))

OnDrawMove == \E ev \in PointerSamples : onDrawMove(ev)

\* the final segment onDrawEnd stamps
EndSegment(pts, prs, rnd) ==
    LET i  == Len(pts) - 2
        p1 == ElemOr(pts, i, NoPoint)
        p0 == ElemOr(pts, i - 1, p1)
        p2 == ElemOr(pts, i + 1, p1)
        p3 == p2
        pressure1 == ElemOr(prs, i, 0)
        pressure2 == NumOr(ElemOr(prs, i + 1, 0), pressure1)
    IN  drawSplineSegment(brush, rnd, p0, p1, p2, p3, pressure1, pressure2)

\* onDrawEnd() returning at once when no stroke is active
OnDrawEndWhenDrawing ==
    /\ lastOp' = Op("end", "none")
    /\ thrown' = "none"
    /\ UNCHANGED <<brush, lifecycle, callVars, permanentSprite, accepted>>
    /\ IF ~isDrawing
       THEN UNCHANGED <<pathVars, sprites, trail, stage, staleDestroys,
                        timerVars, endLog>>
       ELSE /\ IF Len(pathPoints) > 1
               THEN \E rnd \in RandomStreams :
                        AddSprites(EndSegment(pathPoints, pressurePoints, rnd))
               ELSE UNCHANGED <<sprites, trail, stage, staleDestroys>>
            /\ isDrawing' = FALSE
            /\ pathPoints' = << >>
            /\ pressurePoints' = << >>
            /\ scheduleFlatten
            /\ endLog' = [since    |-> 0,
                          gap      |-> IF endLog.flattens = 0 THEN endLog.since
                                                              ELSE 0 - 1,
                          flattens |-> 0,
                          firedAt  |-> 0 - 1]

OnDrawEnd ==
    /\ IF isDrawing /\ Len(pathPoints) > 1
       THEN \E rnd \in RandomStreams :
                AddSprites(EndSegment(pathPoints, pressurePoints, rnd))
       ELSE UNCHANGED <<sprites, trail, stage, staleDestroys>>
    /\ isDrawing' = FALSE
    /\ pathPoints' = << >>
    /\ pressurePoints' = << >>
    /\ scheduleFlatten
    /\ endLog' = [since    |-> 0,
                  gap      |-> IF endLog.flattens = 0 THEN endLog.since ELSE 0 - 1,
                  flattens |-> 0,
                  firedAt  |-> 0 - 1]
    /\ lastOp' = Op("end", "none")
    /\ thrown' = "none"
    /\ UNCHANGED <<brush, lifecycle, callVars, permanentSprite, accepted>>

\* app.renderer.generateTexture({ target: app.stage }): what the stage shows,
\* in draw order; the permanent sprite shows the content of its texture
RECURSIVE Render(_, _, _)
Render(children, permanent, heap) ==
    IF children = << >> THEN << >>
    ELSE (IF Head(children) = 0 THEN permanent.content
                                ELSE <<heap[Head(children)]>>)
         \o Render(Tail(children), permanent, heap)

\* the visible composition
Visible == Render(stage, permanentSprite, sprites)

\* flatten() rasterizing the trail alone, without the permanent sprite
flattenTrailOnly ==
    /\ permanentSprite' =
           [texture |-> "RenderTexture",
            content |-> Render(SelectSeq(stage, LAMBDA c : c # 0),
                               permanentSprite, sprites)]
    /\ DrainTrail
    /\ thrown' = "none"

\* flatten(), rasterization succeeding
flatten ==
    /\ permanentSprite' = [texture |-> "RenderTexture", content |-> Visible]
    /\ DrainTrail
    /\ thrown' = "none"

\* flatten() catching the error of generateTexture and going on to the drain
flattenThrowsCaught ==
    /\ UNCHANGED permanentSprite
    /\ DrainTrail
    /\ thrown' = "none"

\* flatten(), generateTexture throwing: nothing after it runs
flattenThrows ==
    /\ UNCHANGED <<sprites, trail, stage, permanentSprite, staleDestroys>>
    /\ thrown' = "raster"

\* the timer callback of the event loop runs when the delay has elapsed
TimerRuns(t) ==
    /\ t.left = 0
    /\ timers' = timers \ {t}
    /\ endLog' = [endLog EXCEPT !.flattens = Min(@ + 1, 2),
                                !.firedAt  = IF endLog.flattens = 0
                                             THEN endLog.since ELSE @]
    /\ UNCHANGED <<pathVars, brush, lifecycle, callVars, flattenTimeout, accepted>>

TimerFlatten ==
    \E t \in timers :
        /\ TimerRuns(t)
        /\ flatten
        /\ lastOp' = Op("flatten", "ok")

TimerFlattenThrows ==
    \E t \in timers :
        /\ TimerRuns(t)
        /\ flattenThrows
        /\ lastOp' = Op("flatten", "throws")

\* clear() that also cancels the pending flatten
ClearCancels ==
    /\ permanentSprite' = [texture |-> "EMPTY", content |-> << >>]
    /\ DrainTrail
    /\ timers' = ClearTimeout(timers, flattenTimeout)
    /\ lastOp' = Op("clear", "none")
    /\ thrown' = "none"
    /\ UNCHANGED <<pathVars, brush, lifecycle, callVars, flattenTimeout, endLog, accepted>>

\* clear() that also ends the stroke
ClearEndsStroke ==
    /\ permanentSprite' = [texture |-> "EMPTY", content |-> << >>]
    /\ DrainTrail
    /\ isDrawing' = FALSE
    /\ pathPoints' = << >>
    /\ pressurePoints' = << >>
    /\ lastOp' = Op("clear", "none")
    /\ thrown' = "none"
    /\ UNCHANGED <<brush, lifecycle, callVars, timerVars, endLog, accepted>>

\* clear()
Clear ==
    /\ permanentSprite' = [texture |-> "EMPTY", content |-> << >>]
    /\ DrainTrail
    /\ lastOp' = Op("clear", "none")
    /\ thrown' = "none"
    /\ UNCHANGED <<pathVars, brush, lifecycle, callVars, timerVars, endLog, accepted>>

\* time passes; a timer runs when its delay has elapsed, so time does not
\* pass the moment a pending timer is due
Tick ==
    LET step == IF \E t \in timers : t.left < TickMs
                THEN CHOOSE d \in {t.left : t \in timers} :
                         \A t \in timers : d <= t.left
                ELSE TickMs
    IN  /\ \A t \in timers : t.left > 0
        /\ timers' = {[t EXCEPT !.left = @ - step] : t \in timers}
        /\ endLog' = [endLog EXCEPT !.since = IF @ < 0 THEN @
                                              ELSE Min(@ + step, LongAgo)]
        /\ lastOp' = Op("tick", "none")
        /\ thrown' = "none"
        /\ UNCHANGED <<pathVars, brush, lifecycle, callVars, stageVars, flattenTimeout, accepted>>

\* the component before onMount runs
NotMounted ==
    [onMount |-> "start", shape |-> "pending", inputManager |-> "undefined",
     onDestroy |-> "pending"]

\* the state once onMount has completed: the handlers are registered and the
\* shape texture is loaded
Mounted ==
    /\ isDrawing = FALSE
    /\ pathPoints = << >>
    /\ pressurePoints = << >>
    /\ brush = [NewBrush EXCEPT !.texture = "brush_01"]
    /\ sprites = << >>
    /\ trail = << >>
    /\ stage = <<0>>
    /\ permanentSprite = [texture |-> "EMPTY", content |-> << >>]
    /\ flattenTimeout = 0
    /\ timers = {}
    /\ endLog = [since |-> 0 - 1, gap |-> 0 - 1, flattens |-> 0, firedAt |-> 0 - 1]
    /\ accepted = 0
    /\ staleDestroys = 0
    /\ thrown = "none"
    /\ lastOp = [op |-> "mount", raster |-> "none", prev |-> 0, drained |-> 0]
    /\ lifecycle = [onMount |-> "done", shape |-> "loaded",
                    inputManager |-> "listening", onDestroy |-> "pending"]

\* no function is called on its own
Init ==
    /\ Mounted
    /\ args = << >>
    /\ out = << >>

Next ==
    \/ OnDrawStart
    \/ OnDrawMove
    \/ OnDrawEnd
    \/ TimerFlatten
    \/ TimerFlattenThrows
    \/ Clear
    \/ Tick

Spec == Init /\ [][Next]_vars

\* the event loop is fair to the timers: time passes, and a timer that is due
\* runs
LiveSpec ==
    /\ Init
    /\ [][Next]_vars
    /\ WF_vars(Tick)
    /\ WF_vars(TimerFlatten \/ TimerFlattenThrows)

TypeOK ==
    /\ isDrawing \in BOOLEAN
    /\ Len(pathPoints) = Len(pressurePoints)
    /\ Len(pathPoints) <= MaxPoints
    /\ flattenTimeout \in 0..1
    /\ Cardinality(timers) <= 1

\* ------------------------------------------------ Canvas.svelte: onMount
\* the component as it is constructed: no application, no brush, no input
\* manager
MountInit ==
    /\ isDrawing = FALSE
    /\ pathPoints = << >>
    /\ pressurePoints = << >>
    /\ brush = << >>
    /\ sprites = << >>
    /\ trail = << >>
    /\ stage = << >>
    /\ permanentSprite = [texture |-> "EMPTY", content |-> << >>]
    /\ flattenTimeout = 0
    /\ timers = {}
    /\ endLog = [since |-> 0 - 1, gap |-> 0 - 1, flattens |-> 0, firedAt |-> 0 - 1]
    /\ accepted = 0
    /\ staleDestroys = 0
    /\ thrown = "none"
    /\ lastOp = [op |-> "mount", raster |-> "none", prev |-> 0, drained |-> 0]
    /\ lifecycle = NotMounted
    /\ args = << >>
    /\ out = << >>

mountFrame == <<pathVars, sprites, trail, permanentSprite, staleDestroys,
                timerVars, endLog, accepted, thrown, lastOp, callVars>>

\* onMount up to "await app.init(...)"
MountStart ==
    /\ lifecycle.onMount = "start"
    /\ lifecycle' = [lifecycle EXCEPT !.onMount = "app.init"]
    /\ UNCHANGED <<mountFrame, brush, stage>>

\* app.init has resolved: the permanent sprite is put on the stage, the brush
\* is constructed, and onMount waits for brush.loadTexture
MountAppReady ==
    /\ lifecycle.onMount = "app.init"
    /\ stage' = <<0>>
    /\ brush' = NewBrush
    /\ lifecycle' = [lifecycle EXCEPT !.onMount = "loadTexture"]
    /\ UNCHANGED mountFrame

\* the load of the shape texture rejects and onMount swallows the error
\* without making the fallback texture
MountLoadRejectsNoFallback ==
    /\ lifecycle.onMount = "loadTexture"
    /\ brush' = brush
    /\ lifecycle' = [lifecycle EXCEPT !.onMount = "register", !.shape = "failed"]
    /\ UNCHANGED <<mountFrame, stage>>

\* PIXI.Assets.load of the shape texture resolves: loadTexture stores the
\* texture and returns
MountLoadResolves ==
    /\ lifecycle.onMount = "loadTexture"
    /\ brush' = [brush EXCEPT !.texture = "brush_01"]
    /\ lifecycle' = [lifecycle EXCEPT !.onMount = "register", !.shape = "loaded"]
    /\ UNCHANGED <<mountFrame, stage>>

\* it rejects: loadTexture rejects before its assignment, the catch of
\* onMount stores the texture of createFallbackBrushTexture
MountLoadRejects ==
    /\ lifecycle.onMount = "loadTexture"
    /\ brush' = [brush EXCEPT !.texture = "fallback"]
    /\ lifecycle' = [lifecycle EXCEPT !.onMount = "register", !.shape = "failed"]
    /\ UNCHANGED <<mountFrame, stage>>

\* new InputManager(app) and the three inputManager.on(...)
MountRegister ==
    /\ lifecycle.onMount = "register"
    /\ lifecycle' = [lifecycle EXCEPT !.onMount = "done",
                                      !.inputManager = "listening"]
    /\ UNCHANGED <<mountFrame, brush, stage>>

\* the handlers run once the input manager listens
Mount ==
    \/ MountStart
    \/ MountAppReady
    \/ MountLoadResolves
    \/ MountLoadRejects
    \/ MountRegister

MountNext ==
    \/ Mount
    \/ lifecycle.inputManager = "listening" /\ Next

MountSpec == MountInit /\ [][MountNext]_vars

\* ---------------------------------------------- Canvas.svelte: onDestroy
\* onDestroy runs when onMount is suspended at one of its awaits or has
\* returned: inputManager?.destroy() does nothing while inputManager is
\* undefined; app.destroy(true, { children: true, texture: true }) ends the
\* stage with everything on it; clearTimeout(flattenTimeout) cancels the
\* pending flatten
OnDestroy ==
    /\ lifecycle.onDestroy = "pending"
    /\ lifecycle.onMount \in {"app.init", "loadTexture", "done"}
    /\ lifecycle' = [lifecycle EXCEPT
                         !.onDestroy = "done",
                         !.inputManager = IF @ = "listening" THEN "destroyed" ELSE @]
    /\ sprites' = << >>
    /\ stage' = << >>
    /\ permanentSprite' = [texture |-> "destroyed", content |-> << >>]
    /\ timers' = ClearTimeout(timers, flattenTimeout)
    /\ lastOp' = Op("onDestroy", "none")
    /\ UNCHANGED <<pathVars, brush, trail, staleDestroys, flattenTimeout,
                   endLog, accepted, thrown, callVars>>

\* onMount resumes on the application onDestroy has destroyed: the code
\* does not look whether the component is still there, and a statement that
\* uses the destroyed application (app.canvas, app.stage, app.renderer) may
\* throw inside the library; onMount then rejects where it is
MountThrows ==
    /\ lifecycle.onDestroy = "done"
    /\ lifecycle.onMount \in {"app.init", "loadTexture"}
    /\ lifecycle' = [lifecycle EXCEPT !.onMount = "rejected"]
    /\ UNCHANGED <<mountFrame, brush, stage>>

\* onMount, onDestroy and the handlers: when the library does not throw,
\* onMount goes on as it does on a live application
UnmountNext ==
    \/ Mount
    \/ MountThrows
    \/ OnDestroy
    \/ lifecycle.inputManager = "listening" /\ Next

UnmountSpec == MountInit /\ [][UnmountNext]_vars

\* ------------------------------------------ InputManager.ts on its own
\* the events of the stage the input manager listens to
StageEvents == {"pointerdown", "pointerup", "pointerupoutside", "pointermove"}

\* the constructor: this.app.stage.on(event, handler), four times
InputListeners ==
    {<<"pointerdown", "onPointerDown">>,
     <<"pointerup", "onPointerUp">>,
     <<"pointerupoutside", "onPointerUp">>,
     <<"pointermove", "onPointerMove">>}

\* what each handler emits
Emits(handler) ==
    CASE handler = "onPointerDown" -> "start"
      [] handler = "onPointerMove" -> "move"
      [] handler = "onPointerUp"   -> "end"

\* args: the events the stage has dispatched, in order; out.listeners: the
\* listeners on the stage; out.emitted: the calls of this.emit, in order,
\* each with the event it passed on (its index in args)
InputInit ==
    /\ Mounted
    /\ args = << >>
    /\ out = [listeners |-> InputListeners, emitted |-> << >>]

inputFrame == <<pathVars, brush, stageVars, timerVars, endLog, accepted,
                thrown, lastOp>>

\* the stage dispatches a pointer event: the listeners for it run before the
\* dispatch returns
Dispatch(type) ==
    /\ Len(args) < MaxEvents
    /\ args' = Append(args, type)
    /\ out' = [out EXCEPT !.emitted =
                   IF \E l \in out.listeners : l[1] = type
                   THEN Append(@, [name  |-> Emits((CHOOSE l \in out.listeners :
                                                        l[1] = type)[2]),
                                   event |-> Len(args) + 1])
                   ELSE @]
    /\ UNCHANGED <<inputFrame, lifecycle>>

DispatchPointer == \E type \in StageEvents : Dispatch(type)

\* destroy() leaving the listener for pointerupoutside on the stage
InputDestroyKeepsOutside ==
    /\ lifecycle.inputManager = "listening"
    /\ lifecycle' = [lifecycle EXCEPT !.inputManager = "destroyed"]
    /\ out' = [out EXCEPT !.listeners =
                   @ \ {<<"pointerdown", "onPointerDown">>,
                        <<"pointerup", "onPointerUp">>,
                        <<"pointermove", "onPointerMove">>}]
    /\ UNCHANGED <<inputFrame, args>>

\* destroy(): this.app.stage.off(event, handler), four times, and
\* removeAllListeners()
InputDestroy ==
    /\ lifecycle.inputManager = "listening"
    /\ lifecycle' = [lifecycle EXCEPT !.inputManager = "destroyed"]
    /\ out' = [out EXCEPT !.listeners =
                   @ \ {<<"pointerdown", "onPointerDown">>,
                        <<"pointerup", "onPointerUp">>,
                        <<"pointerupoutside", "onPointerUp">>,
                        <<"pointermove", "onPointerMove">>}]
    /\ UNCHANGED <<inputFrame, args>>

InputNext ==
    \/ DispatchPointer
    \/ InputDestroy

InputSpec == InputInit /\ [][InputNext]_vars

\* ------------------------------------------------- Spline.ts on its own
canvasVars == <<pathVars, brush, stageVars, timerVars, endLog, accepted,
                thrown, lastOp, lifecycle>>

\* --------------------------------------- rgbToHex and hexToRgb on their own
\* a string is a sequence of characters, each a string of length one
Digits16 == <<"0", "1", "2", "3", "4", "5", "6", "7",
              "8", "9", "a", "b", "c", "d", "e", "f">>

UpperDigits16 == <<"0", "1", "2", "3", "4", "5", "6", "7",
                   "8", "9", "A", "B", "C", "D", "E", "F">>

\* n.toString(16) of an integer n >= 0
RECURSIVE toString16(_)
toString16(n) ==
    IF n < 16 THEN <<Digits16[n + 1]>>
    ELSE toString16(n \div 16) \o <<Digits16[(n % 16) + 1]>>

\* toHex of rgbToHex on an integer: Math.round leaves it as it is
toHex(n) ==
    LET hex == toString16(Max(0, Min(255, n)))
    IN  IF Len(hex) = 1 THEN <<"0">> \o hex ELSE hex

rgbToHex(r, g, b) == <<"#">> \o toHex(r) \o toHex(g) \o toHex(b)

\* [a-f\d] under the flag i
MatchesHexClass(c) ==
    \E k \in 1..16 : c = Digits16[k] \/ c = UpperDigits16[k]

\* parseInt(chars, 16) of characters of that class
RECURSIVE parseInt16(_)
parseInt16(chars) ==
    IF chars = << >> THEN 0
    ELSE LET c == chars[Len(chars)]
             v == CHOOSE k \in 0..15 : c = Digits16[k + 1] \/ c = UpperDigits16[k + 1]
         IN  16 * parseInt16(SubSeq(chars, 1, Len(chars) - 1)) + v

\* hexToRgb with a pattern that is not anchored at the end:
\* /^#?([a-f\d]{2})([a-f\d]{2})([a-f\d]{2})/i
hexToRgbUnanchored(hex) ==
    LET from == IF hex # << >> /\ hex[1] = "#" THEN 2 ELSE 1
    IN  IF /\ Len(hex) >= from + 5
           /\ \A k \in from..(from + 5) : MatchesHexClass(hex[k])
        THEN [r |-> parseInt16(SubSeq(hex, from, from + 1)),
              g |-> parseInt16(SubSeq(hex, from + 2, from + 3)),
              b |-> parseInt16(SubSeq(hex, from + 4, from + 5))]
        ELSE << >>

\* hexToRgb: /^#?([a-f\d]{2})([a-f\d]{2})([a-f\d]{2})$/i.exec(hex), and the
\* three groups parsed; << >> is null
hexToRgb(hex) ==
    LET from == IF hex # << >> /\ hex[1] = "#" THEN 2 ELSE 1
    IN  IF /\ Len(hex) = from + 5
           /\ \A k \in from..(from + 5) : MatchesHexClass(hex[k])
        THEN [r |-> parseInt16(SubSeq(hex, from, from + 1)),
              g |-> parseInt16(SubSeq(hex, from + 2, from + 3)),
              b |-> parseInt16(SubSeq(hex, from + 4, from + 5))]
        ELSE << >>

\* channel values: every integer of 0..255 in one channel with the ends of
\* the range and of the one-digit values in the other two, and the integers
\* next to the range
ChannelEnds == {0, 15, 16, 255}

ChannelCalls ==
    {[fn |-> "rgbToHex", r |-> r, g |-> g, b |-> b] :
         r \in (0 - 1)..256, g \in ChannelEnds, b \in ChannelEnds}
    \cup {[fn |-> "rgbToHex", r |-> r, g |-> g, b |-> b] :
         r \in ChannelEnds, g \in (0 - 1)..256, b \in ChannelEnds}
    \cup {[fn |-> "rgbToHex", r |-> r, g |-> g, b |-> b] :
         r \in ChannelEnds, g \in ChannelEnds, b \in (0 - 1)..256}

\* the characters of the strings given to hexToRgb: the sign, a digit, a
\* letter in either case, and the letter after f
HexAlphabet == {"#", "0", "a", "F", "g"}

HexCalls ==
    {[fn |-> "hexToRgb", hex |-> hex] :
         hex \in UNION {[1..n -> HexAlphabet] : n \in 0..MaxChars}}

ColorInit ==
    /\ Mounted
    /\ args \in ChannelCalls \cup HexCalls
    /\ out = << >>

\* rgbToHex(r, g, b), and hexToRgb of what it returned
CallRgbToHex ==
    /\ out = << >>
    /\ args.fn = "rgbToHex"
    /\ \E hex \in {rgbToHex(args.r, args.g, args.b)} :
           out' = [hex |-> hex, rgb |-> hexToRgb(hex)]
    /\ UNCHANGED <<canvasVars, args>>

CallHexToRgb ==
    /\ out = << >>
    /\ args.fn = "hexToRgb"
    /\ out' = [rgb |-> hexToRgb(args.hex)]
    /\ UNCHANGED <<canvasVars, args>>

ColorNext ==
    \/ CallRgbToHex
    \/ CallHexToRgb

ColorSpec == ColorInit /\ [][ColorNext]_vars

CurvePoints == {Pt(0, 0), Pt(6, 0), Pt(4, 2)}

\* catmullRomPoint(i/n, p0, p1, p2, p3) on pointer positions
CurveCalls ==
    {[fn |-> "catmullRomPoint", i |-> i, n |-> n,
      p0 |-> p0, p1 |-> p1, p2 |-> p2, p3 |-> p3] :
        i \in 0..5, n \in {2, 4, 5},
        p0 \in CurvePoints, p1 \in CurvePoints,
        p2 \in CurvePoints, p3 \in CurvePoints}

\* coordinates that need every significant bit, and small ones
FloatPoints ==
    {Pt(1, 3), Pt(3, 1),
     Pt(Pow2(MantissaBits) - 1, Pow2(MantissaBits - 1) + 1),
     Pt(Pow2(MantissaBits - 1) + 1, Pow2(MantissaBits) - 1)}

\* catmullRomPoint(t, p0, p1, p2, p3) in floating point, at the two ends
FloatCalls ==
    {[fn |-> "float", i |-> t, n |-> 1,
      p0 |-> p0, p1 |-> p1, p2 |-> p2, p3 |-> p3] :
        t \in {0, 1},
        p0 \in FloatPoints, p1 \in FloatPoints,
        p2 \in FloatPoints, p3 \in FloatPoints}

SplineInit ==
    /\ Mounted
    /\ args \in {c \in CurveCalls : c.i <= c.n} \cup FloatCalls
    /\ out = << >>

CallCatmullRomPoint ==
    /\ out = << >>
    /\ args.fn = "catmullRomPoint"
    /\ out' = catmullRomPoint(args.i, args.n, args.p0, args.p1, args.p2, args.p3)
    /\ UNCHANGED <<canvasVars, args>>

CallCatmullRomFloat ==
    /\ out = << >>
    /\ args.fn = "float"
    /\ out' = [x |-> catmullRomFloat(args.i, args.p0.x, args.p1.x,
                                     args.p2.x, args.p3.x),
               y |-> catmullRomFloat(args.i, args.p0.y, args.p1.y,
                                     args.p2.y, args.p3.y),
               d |-> 2]
    /\ UNCHANGED <<canvasVars, args>>

SplineNext ==
    \/ CallCatmullRomPoint
    \/ CallCatmullRomFloat

SplineSpec == SplineInit /\ [][SplineNext]_vars

\* ------------------------------------------- catmullRomLength on its own
\* catmullRomLength(p0, p1, p2, p3, samples)
LengthCalls ==
    {[fn |-> "catmullRomLength", samples |-> samples,
      p0 |-> p0, p1 |-> p1, p2 |-> p2, p3 |-> p3] :
        samples \in 1..MaxSamples,
        p0 \in CurvePoints, p1 \in CurvePoints,
        p2 \in CurvePoints, p3 \in CurvePoints}

LengthInit ==
    /\ Mounted
    /\ args \in LengthCalls
    /\ out = << >>

\* the returned length is out.length / out.d
CallCatmullRomLength ==
    /\ out = << >>
    /\ args.fn = "catmullRomLength"
    /\ out' = [length |-> catmullRomLength(args.p0, args.p1, args.p2, args.p3,
                                           args.samples),
               d      |-> 2 * args.samples * args.samples * args.samples]
    /\ UNCHANGED <<canvasVars, args>>

LengthNext == CallCatmullRomLength

LengthSpec == LengthInit /\ [][LengthNext]_vars

\* ------------------------------------------ drawSplineSegment on its own
\* the brush of the mounted canvas, and brushes that differ from it in one
\* setting
Brushes ==
    LET b == [NewBrush EXCEPT !.texture = "brush_01"]
    IN  {b,
         [b EXCEPT !.size = 0],
         [b EXCEPT !.spacing = 0], [b EXCEPT !.spacing = 100],
         [b EXCEPT !.jitter = 50],
         [b EXCEPT !.alpha = 0], [b EXCEPT !.alpha = 5]}

\* p0..p3 of a segment: pointer positions, any of them equal, and the first
\* segment of a stroke from (0,0) to (100,0)
ControlPoints ==
    {<<p0, p1, p2, p3>> : p0 \in CurvePoints, p1 \in CurvePoints,
                          p2 \in CurvePoints, p3 \in CurvePoints}
    \cup {<<Pt(0, 0), Pt(0, 0), Pt(100, 0), Pt(100, 0)>>}

\* drawSplineSegment(p0, p1, p2, p3, pressure1, pressure2) with brush b
SegmentCalls ==
    {[fn |-> "drawSplineSegment", b |-> b,
      p0 |-> c[1], p1 |-> c[2], p2 |-> c[3], p3 |-> c[4],
      pressure1 |-> pressure1, pressure2 |-> pressure2] :
        b \in Brushes, c \in ControlPoints,
        pressure1 \in {0, 5, 10}, pressure2 \in {0, 5, 10}}

SegmentInit ==
    /\ Mounted
    /\ args \in SegmentCalls
    /\ out = << >>

\* one call: what it computed and the sprites it created
CallDrawSplineSegment ==
    /\ out = << >>
    /\ args.fn = "drawSplineSegment"
    /\ \E rnd \in RandomStreams :
           out' = [rnd |-> rnd,
                   segmentLength |-> catmullRomLength(args.p0, args.p1, args.p2,
                                                      args.p3, Samples),
                   spacing  |-> spacingOf(args.b, args.pressure1, args.pressure2),
                   numSteps |-> numStepsOf(args.b, args.p0, args.p1, args.p2,
                                           args.p3, args.pressure1,
                                           args.pressure2),
                   requests |-> stampRequests(0,
                                    numStepsOf(args.b, args.p0, args.p1,
                                               args.p2, args.p3,
                                               args.pressure1, args.pressure2),
                                    numStepsOf(args.b, args.p0, args.p1,
                                               args.p2, args.p3,
                                               args.pressure1, args.pressure2),
                                    args.p0, args.p1, args.p2, args.p3,
                                    args.pressure1, args.pressure2),
                   stamps   |-> drawSplineSegment(args.b, rnd, args.p0, args.p1,
                                                  args.p2, args.p3,
                                                  args.pressure1,
                                                  args.pressure2)]
    /\ UNCHANGED <<canvasVars, args>>

SegmentNext == CallDrawSplineSegment

SegmentSpec == SegmentInit /\ [][SegmentNext]_vars

\* ------------------------------------ Brush.ts and paintBrush on their own
\* a constructed brush whose stroke settings and size were assigned
StampBrushes ==
    {[NewBrush EXCEPT !.jitter = j, !.size = sz] :
        j \in {0, 50, 100}, sz \in {0, 50}}

ShapeUrls == {"brush_01"}

GrainUrls == {"grain_01", "grain_02"}

\* Math.random(), in tenths: the least value, the middle, the greatest
RandomValues == {0, 5, 9}

\* PIXI.Assets.load(url): the promise resolves with the texture of the url
\* or rejects
AssetLoads(url) ==
    {[ok |-> TRUE, texture |-> url], [ok |-> FALSE, texture |-> "none"]}

BrushInit ==
    /\ isDrawing = FALSE
    /\ pathPoints = << >>
    /\ pressurePoints = << >>
    /\ brush \in StampBrushes
    /\ sprites = << >>
    /\ trail = << >>
    /\ stage = <<0>>
    /\ permanentSprite = [texture |-> "EMPTY", content |-> << >>]
    /\ flattenTimeout = 0
    /\ timers = {}
    /\ endLog = [since |-> 0 - 1, gap |-> 0 - 1, flattens |-> 0, firedAt |-> 0 - 1]
    /\ accepted = 0
    /\ staleDestroys = 0
    /\ thrown = "none"
    /\ lastOp = [op |-> "new", raster |-> "none", prev |-> 0, drained |-> 0]
    /\ lifecycle = NotMounted
    /\ args = << >>
    /\ out = << >>

brushFrame == <<pathVars, stageVars, timerVars, endLog, accepted, thrown, lastOp,
                lifecycle>>

\* brush.loadTexture(shapeUrl, grainUrl), grainUrl = "" when it is not given:
\* out.settled is how the returned promise settles, out.grain what became of
\* the load of the grain texture
loadTexture(shapeUrl, grainUrl) ==
    \E shape \in AssetLoads(shapeUrl) :
        /\ args' = [fn |-> "loadTexture", shapeUrl |-> shapeUrl,
                    grainUrl |-> grainUrl]
        /\ IF ~shape.ok
           THEN /\ brush' = brush
                /\ out' = [settled |-> "rejected", grain |-> "none"]
           ELSE IF grainUrl = ""
           THEN /\ brush' = [brush EXCEPT !.texture = shape.texture]
                /\ out' = [settled |-> "resolved", grain |-> "none"]
           ELSE \E grain \in AssetLoads(grainUrl) :
                /\ brush' = [brush EXCEPT !.texture = shape.texture,
                                          !.grainTexture =
                                              IF grain.ok THEN grain.texture
                                                          ELSE "EMPTY"]
                /\ out' = [settled |-> "resolved",
                           grain   |-> IF grain.ok THEN "loaded" ELSE "failed"]
        /\ UNCHANGED brushFrame

CallLoadTexture ==
    \E shapeUrl \in ShapeUrls, grainUrl \in GrainUrls \cup {""} :
        loadTexture(shapeUrl, grainUrl)

\* brush.loadGrainTexture(grainUrl)
loadGrainTexture(grainUrl) ==
    \E grain \in AssetLoads(grainUrl) :
        /\ args' = [fn |-> "loadGrainTexture", shapeUrl |-> "",
                    grainUrl |-> grainUrl]
        /\ IF grain.ok
           THEN /\ brush' = [brush EXCEPT !.grainTexture = grain.texture]
                /\ out' = [settled |-> "resolved", grain |-> "loaded"]
           ELSE /\ brush' = brush
                /\ out' = [settled |-> "rejected", grain |-> "failed"]
        /\ UNCHANGED brushFrame

CallLoadGrainTexture == \E grainUrl \in GrainUrls : loadGrainTexture(grainUrl)

\* paintBrush(x, y, pressure) with the brush as it is: out.sprites are the
\* sprites it pushed on the trail, in order; pressure in tenths
CallPaintBrush ==
    \E pos \in {Pt(0, 0), Pt(4, 2)}, pressure \in {0, 3, 10},
       rx \in RandomValues, ry \in RandomValues :
        /\ args' = [fn |-> "paintBrush", x |-> pos.x, y |-> pos.y,
                    pressure |-> pressure]
        /\ out' = [rx |-> rx, ry |-> ry,
                   sprites |-> paintBrush(brush, [x |-> pos.x, y |-> pos.y,
                                                  d |-> 1],
                                          pressure, 10, rx, ry)]
        /\ UNCHANGED <<brush, brushFrame>>

BrushNext ==
    \/ CallLoadTexture
    \/ CallLoadGrainTexture
    \/ CallPaintBrush

BrushSpec == BrushInit /\ [][BrushNext]_vars

\* ---------------------------------------------------------------- claims
DistSq(a, b) == (a.x - b.x) * (a.x - b.x) + (a.y - b.y) * (a.y - b.y)

EmptySurface == [texture |-> "EMPTY", content |-> << >>]

\* the sprites of the live trail, in order
TrailSprites == [k \in 1..Len(trail) |-> sprites[trail[k]]]

\* C1: when onDrawEnd is called again before the timer of the call before it
\* has run (endLog.gap is the time between the two calls), one timer is
\* pending at most, it is due FlattenDelay after the second call, flatten
\* runs once at most after the second call, it runs exactly FlattenDelay
\* after it, and once more than FlattenDelay has passed it has run.
C1_Debounce ==
    endLog.gap >= 0 =>
        /\ Cardinality(timers) <= 1
        /\ endLog.flattens <= 1
        /\ endLog.flattens = 0 =>
               \A t \in timers : t.left = FlattenDelay - endLog.since
        /\ endLog.flattens = 0 /\ endLog.since <= FlattenDelay => timers # {}
        /\ endLog.flattens = 1 => endLog.firedAt = FlattenDelay
        /\ endLog.since > FlattenDelay => endLog.flattens = 1

\* two calls half a delay apart, and the one flatten has run
C1_Witness ==
    /\ endLog.gap = TickMs
    /\ endLog.flattens = 1
    /\ lastOp.op = "flatten"

\* C2 as stated: after clear() no flatten timer is pending.
C2_ClearCancelsTimer == lastOp.op = "clear" => timers = {}

\* C2 as amended: clear() empties the live trail and resets the persistent
\* surface from any state, and it leaves the flatten timer as it is: a timer
\* pending before clear() is pending after it, with the same time left.
C2_ClearLeavesTimer ==
    [][lastOp'.op = "clear" =>
          /\ timers' = timers
          /\ flattenTimeout' = flattenTimeout
          /\ trail' = << >>
          /\ permanentSprite' = EmptySurface]_vars

\* clear() has drained a trail while a flatten was pending
C2_Witness ==
    /\ lastOp.op = "clear"
    /\ lastOp.drained > 0
    /\ timers # {}

\* C3: right after a flatten whose rasterization succeeded and right after a
\* clear(), the live trail is empty, no sprite is left alive or on the stage,
\* and no sprite was destroyed a second time.
C3_TrailEmptyAfterDrain ==
    (lastOp.op = "clear" \/ (lastOp.op = "flatten" /\ lastOp.raster = "ok")) =>
        /\ trail = << >>
        /\ DOMAIN sprites = {}
        /\ stage = <<0>>
        /\ staleDestroys = 0

\* a flatten or a clear() that found sprites in the trail
C3_Witness ==
    /\ lastOp.op \in {"clear", "flatten"}
    /\ lastOp.raster # "throws"
    /\ lastOp.drained > 1
    /\ trail = << >>

\* C4: a flatten whose rasterization succeeds makes the persistent surface
\* the former surface followed by the sprites of the trail, and leaves the
\* visible composition as it was.
C4_FlattenKeepsComposition ==
    [][lastOp'.op = "flatten" /\ lastOp'.raster = "ok" =>
          /\ permanentSprite'.content = permanentSprite.content \o TrailSprites
          /\ Visible' = Visible]_vars

\* a flatten that merged a non-empty surface and a non-empty trail
C4_Witness ==
    /\ lastOp.op = "flatten"
    /\ lastOp.raster = "ok"
    /\ lastOp.prev > 0
    /\ lastOp.drained > 0
    /\ Len(permanentSprite.content) = lastOp.prev + lastOp.drained

\* C5: when generateTexture throws in flatten, the persistent surface, the
\* trail, its sprites and the stage stay as they were, and the error leaves
\* the handler.
C5_RasterFailure ==
    [][lastOp'.op = "flatten" /\ lastOp'.raster = "throws" =>
          /\ permanentSprite' = permanentSprite
          /\ trail' = trail
          /\ sprites' = sprites
          /\ stage' = stage
          /\ thrown' = "raster"]_vars

\* a failed flatten over a non-empty trail
C5_Witness ==
    /\ lastOp.op = "flatten"
    /\ lastOp.raster = "throws"
    /\ thrown = "raster"
    /\ trail # << >>
    /\ Range(trail) \subseteq DOMAIN sprites

\* C6: every onDrawEnd leaves the path and the pressures empty, the stroke
\* inactive and exactly one flatten timer pending, and on an empty path it
\* adds no sprite.
C6_AfterEnd ==
    [][lastOp'.op = "end" =>
          /\ pathPoints' = << >>
          /\ pressurePoints' = << >>
          /\ ~isDrawing'
          /\ Cardinality(timers') = 1
          /\ \A t \in timers' : t.left = FlattenDelay
          /\ (pathPoints = << >> => trail' = trail /\ sprites' = sprites)]_vars

\* onDrawEnd right after onDrawEnd, no point ever accepted
C6_Witness ==
    /\ lastOp.op = "end"
    /\ endLog.gap = 0
    /\ accepted = 0
    /\ Cardinality(timers) = 1

\* C7: with no stroke active the path is empty, and in an active stroke every
\* point of the path is at distance >= 4 from the one before it.
C7_PathInvariant ==
    /\ ~isDrawing => Len(pathPoints) = 0
    /\ isDrawing =>
          \A k \in 2..Len(pathPoints) :
              DistSq(pathPoints[k], pathPoints[k - 1]) >= 16

\* an active stroke of three points
C7_Witness == isDrawing /\ Len(pathPoints) = 3

\* C8: onDrawMove changes nothing when no stroke is active or the sample is
\* closer than 4 to the last point of the path; otherwise it appends the
\* sample's point to the path and its pressure to the pressures.
C8_MoveFrame ==
    [][\A ev \in PointerSamples :
          onDrawMove(ev) =>
              IF ~isDrawing \/ DistSq(ev.pt, pathPoints[Len(pathPoints)]) < 16
              THEN UNCHANGED <<isDrawing, pathPoints, pressurePoints, trail,
                               sprites, stage, permanentSprite,
                               flattenTimeout, timers>>
              ELSE /\ pathPoints' = Append(pathPoints, ev.pt)
                   /\ pressurePoints' = Append(pressurePoints, ev.pr)
                   /\ isDrawing']_vars

\* a sample dropped in an active stroke: the path still has its first point only
C8_Witness ==
    /\ lastOp.op = "move"
    /\ isDrawing
    /\ Len(pathPoints) = 1

\* C9: clear() in an active stroke empties the trail, resets the persistent
\* surface and leaves the path; an accepted onDrawMove right after it appends
\* its point to that path and puts live sprites on the trail, with no error.
C9_ClearMidStroke ==
    [][/\ lastOp'.op = "clear" /\ isDrawing =>
             /\ trail' = << >>
             /\ permanentSprite' = EmptySurface
             /\ UNCHANGED <<isDrawing, pathPoints, pressurePoints>>
             /\ thrown' = "none"
       /\ lastOp.op = "clear" /\ isDrawing =>
             \A ev \in PointerSamples :
                 onDrawMove(ev)
                 /\ DistSq(ev.pt, pathPoints[Len(pathPoints)]) >= 16 =>
                     /\ pathPoints' = Append(pathPoints, ev.pt)
                     /\ trail' # << >>
                     /\ Range(trail') \subseteq DOMAIN sprites'
                     /\ Range(trail') \subseteq Range(stage')
                     /\ thrown' = "none"]_vars

\* a stroke of three points, never ended, whose trail holds the sprites of
\* its last segment only: clear() ran between the two accepted moves
C9_Witness ==
    /\ lastOp.op = "move"
    /\ isDrawing
    /\ Len(pathPoints) = 3
    /\ endLog.since < 0
    /\ permanentSprite = EmptySurface
    /\ \E rnd \in RandomStreams :
           Len(trail) = Len(MoveSegment(pathPoints, pressurePoints, rnd))
    /\ thrown = "none"

\* C10 as stated: onDrawEnd on a stroke of one point adds a sprite to the
\* trail.
C10_TapStamps ==
    [][lastOp'.op = "end" /\ isDrawing /\ Len(pathPoints) = 1 =>
          Len(trail') > Len(trail)]_vars

\* a call of catmullRomPoint(i/n, p, p, q, q) has returned
Duplicated ==
    /\ out # << >>
    /\ args.fn = "catmullRomPoint"
    /\ args.p0 = args.p1
    /\ args.p2 = args.p3

\* (t + 3 t^2 - 2 t^3) / 2 at t = i/n, as a numerator over 2*n^3
Ease(i, n) == i * n * n + 3 * i * i * n - 2 * i * i * i

\* C13 as stated: catmullRomPoint(t, p, p, q, q) = p + t * (q - p).
C13_Linear ==
    Duplicated =>
        /\ out.x * args.n
             = out.d * (args.p1.x * args.n + args.i * (args.p2.x - args.p1.x))
        /\ out.y * args.n
             = out.d * (args.p1.y * args.n + args.i * (args.p2.y - args.p1.y))

\* C13 as amended: catmullRomPoint(t, p, p, q, q) = p + s(t) * (q - p) with
\* s(t) = (t + 3 t^2 - 2 t^3) / 2, which is in [0, 1] and equals t at
\* t = 0, 1/2 and 1 only: the point is on the segment from p to q, but it
\* does not move along it at constant speed.
C13_EaseCurve ==
    Duplicated =>
        LET s == Ease(args.i, args.n)
        IN  /\ out.x = out.d * args.p1.x + s * (args.p2.x - args.p1.x)
            /\ out.y = out.d * args.p1.y + s * (args.p2.y - args.p1.y)
            /\ 0 <= s /\ s <= out.d
            /\ s * args.n = out.d * args.i
                   <=> (args.i = 0 \/ 2 * args.i = args.n \/ args.i = args.n)

\* the point at t = 1/4 between two different points
C13_Witness ==
    /\ Duplicated
    /\ args.p1 # args.p2
    /\ args.i = 1 /\ args.n = 4
    /\ 4 * out.x # out.d * (3 * args.p1.x + args.p2.x)

\* every intermediate result of the formula is an integer below
\* 2^MantissaBits, so no operation rounds
SmallCoords ==
    \A p \in {args.p0, args.p1, args.p2, args.p3} :
        12 * Abs(p.x) < Pow2(MantissaBits) /\ 12 * Abs(p.y) < Pow2(MantissaBits)

\* C14 as stated: catmullRomPoint(0, ...) = p1 and catmullRomPoint(1, ...) =
\* p2 exactly, for any control points.
C14_EndpointsExact ==
    out # << >> /\ args.fn = "float" =>
        /\ args.i = 0 => out.x = out.d * args.p1.x /\ out.y = out.d * args.p1.y
        /\ args.i = 1 => out.x = out.d * args.p2.x /\ out.y = out.d * args.p2.y

\* C14 as amended: the value of the formula is p1 at t = 0 and p2 at t = 1;
\* the floating-point result is p1 exactly at t = 0 for any control points,
\* and it is p2 exactly at t = 1 when no intermediate result is rounded.
C14_EndpointsRounded ==
    out # << >> =>
        /\ args.i = 0 => out.x = out.d * args.p1.x /\ out.y = out.d * args.p1.y
        /\ args.i = args.n /\ (args.fn = "float" => SmallCoords) =>
               out.x = out.d * args.p2.x /\ out.y = out.d * args.p2.y

\* a floating-point call at t = 1 that returned p2, different from p1
C14_Witness ==
    /\ out # << >>
    /\ args.fn = "float"
    /\ args.i = 1
    /\ SmallCoords
    /\ args.p1 # args.p2 /\ args.p0 # args.p3
    /\ out.x = 2 * args.p2.x

\* a call of drawSplineSegment has returned
Drawn == out # << >> /\ args.fn = "drawSplineSegment"

\* C11: for every segment, whatever the control points (p1 = p2 included),
\* the pressures, the brush size and the spacing fraction, the spacing is at
\* least 1, the number of steps is at least 1 and a stamp is made for every
\* step from 0 to that number.
C11_StepsAndSpacing ==
    Drawn =>
        /\ out.spacing >= 2000
        /\ out.numSteps >= 1
        /\ Len(out.stamps) = out.numSteps + 1

\* a segment of length zero drawn with a brush of size zero
C11_Witness ==
    /\ Drawn
    /\ args.p0 = args.p1 /\ args.p1 = args.p2 /\ args.p2 = args.p3
    /\ args.b.size = 0
    /\ args.pressure1 = 0 /\ args.pressure2 = 0
    /\ out.segmentLength = 0
    /\ out.numSteps = 1

\* the first segment of the stroke from (0,0) to (100,0), both pressures 1.0,
\* brush size 50, spacing fraction 0.05, no jitter
Scenario ==
    /\ Drawn
    /\ args.p0 = Pt(0, 0) /\ args.p1 = Pt(0, 0)
    /\ args.p2 = Pt(100, 0) /\ args.p3 = Pt(100, 0)
    /\ args.pressure1 = 10 /\ args.pressure2 = 10
    /\ args.b.size = 50 /\ args.b.spacing = 5 /\ args.b.jitter = 0

\* C12: in that scenario the spacing is 2.5, the estimated length is 100, the
\* number of steps is 40, every stamp is on the line y = 0, and with the
\* brush of the canvas the stamps are those of the onDrawMove that accepts
\* (100,0) after onDrawStart at (0,0).
C12_Scenario ==
    Scenario =>
        /\ 2 * out.spacing = 5 * 2000
        /\ out.segmentLength = 100 * lengthDen
        /\ out.numSteps = 40
        /\ \A k \in DOMAIN out.stamps :
               out.stamps[k].y = 0 /\ out.stamps[k].jy = 0
        /\ args.b = brush =>
               out.stamps = MoveSegment(<<Pt(0, 0), Pt(100, 0)>>, <<10, 10>>,
                                        out.rnd)

\* the scenario has run with the brush of the canvas: 41 stamps, the last
\* one at (100,0)
C12_Witness ==
    /\ Scenario
    /\ args.b = brush
    /\ Len(out.stamps) = 41
    /\ out.stamps[41].x = 100 * out.stamps[41].d

\* the segment that ends at the second-to-last point of the path pts, with
\* the last point as p3
LaggingSegment(pts, prs, rnd) ==
    LET n == Len(pts)
    IN  drawSplineSegment(brush, rnd,
                          IF n >= 4 THEN pts[n - 3] ELSE pts[n - 2],
                          pts[n - 2], pts[n - 1], pts[n],
                          prs[n - 2], prs[n - 1])

\* C15 as stated: an onDrawMove that brings the path to three points or more
\* stamps the segment that ends at the second-to-last point, with the newest
\* point as p3, and nothing on the span that ends at the newest point.
C15_LagsOnePoint ==
    [][\A ev \in PointerSamples :
          onDrawMove(ev) /\ Len(pathPoints') >= 3
                         /\ Len(pathPoints') > Len(pathPoints) =>
              \E rnd \in RandomStreams :
                  TrailSprites' = TrailSprites
                      \o LaggingSegment(pathPoints', pressurePoints', rnd)]_vars

\* C16: the onDrawMove that accepts the second point of a stroke stamps the
\* segment with p0 = p1 = the first point, p2 = p3 = the second point and the
\* two pressures, so the trail is not empty when it returns.
C16_FirstSegment ==
    [][\A ev \in PointerSamples :
          onDrawMove(ev) /\ isDrawing /\ Len(pathPoints) = 1
                         /\ DistSq(ev.pt, pathPoints[1]) >= 16 =>
              /\ \E rnd \in RandomStreams :
                     TrailSprites' = TrailSprites
                         \o drawSplineSegment(brush, rnd,
                                pathPoints[1], pathPoints[1], ev.pt, ev.pt,
                                pressurePoints[1], ev.pr)
              /\ Len(trail') >= Len(trail) + 2
              /\ Range(trail') \subseteq DOMAIN sprites']_vars

\* the second point of the first stroke was accepted: the trail holds the
\* stamps from the first point to the second
C16_Witness ==
    /\ lastOp.op = "move"
    /\ isDrawing
    /\ Len(pathPoints) = 2
    /\ endLog.since < 0
    /\ trail # << >>
    /\ TrailSprites[1].x = pathPoints[1].x * TrailSprites[1].d
    /\ TrailSprites[Len(trail)].x = pathPoints[2].x * TrailSprites[Len(trail)].d

\* a pressure of exactly 0 replaced by 0.5
HalfIfZero(pressure) == IF pressure = 0 THEN 5 ELSE pressure

\* C17 as stated: a segment is stamped as if every endpoint pressure of
\* exactly 0 were 0.5.
C17_ZeroIsHalf ==
    Drawn =>
        out.stamps = drawSplineSegment(args.b, out.rnd, args.p0, args.p1,
                                       args.p2, args.p3,
                                       HalfIfZero(args.pressure1),
                                       HalfIfZero(args.pressure2))

\* C18: the alpha of stamp i of a segment is max(0.2, e * brush.alpha), e
\* being the pressure interpolated at i/numSteps, or 0.5 when that is 0; so
\* it is at least 0.2, and at most 1 when brush.alpha is at most 1.
C18_StampAlpha ==
    Drawn =>
        \A k \in DOMAIN out.stamps :
            LET n    == out.numSteps
                st   == out.stamps[k]
                raw  == args.pressure1 * n
                          + (args.pressure2 - args.pressure1) * (k - 1)
                e    == IF raw > 0 THEN raw ELSE 5 * n      \* over 10 * n
            IN  /\ st.kind = "stamp"
                /\ st.ad = 100 * n
                /\ st.a = Max(20 * n, e * args.b.alpha)
                /\ 5 * st.a >= st.ad
                /\ args.b.alpha <= 10 => st.a <= st.ad

\* a segment from pressure 0 to pressure 1.0 with brush alpha 0.5: stamps
\* held at 0.2 and a stamp above it
C18_Witness ==
    /\ Drawn
    /\ args.b.alpha = 5
    /\ args.pressure1 = 0 /\ args.pressure2 = 10
    /\ \E k \in DOMAIN out.stamps : 5 * out.stamps[k].a = out.stamps[k].ad
    /\ \E k \in DOMAIN out.stamps : 5 * out.stamps[k].a > out.stamps[k].ad
    /\ \E k \in DOMAIN out.stamps : 2 * out.stamps[k].a = out.stamps[k].ad

\* position and size of a sprite
Geometry(sp) ==
    [x |-> sp.x, y |-> sp.y, d |-> sp.d, jx |-> sp.jx, jy |-> sp.jy,
     jd |-> sp.jd, w |-> sp.w, wd |-> sp.wd]

\* the sprites after are the sprites before followed by sprites with the
\* positions and sizes of those of added
SameStamps(before, after, added) ==
    /\ Len(after) = Len(before) + Len(added)
    /\ \A k \in DOMAIN before : after[k] = before[k]
    /\ \A k \in DOMAIN added :
           Geometry(after[Len(before) + k]) = Geometry(added[k])

\* C19: with jitter 0 the positions and sizes of the stamps of a segment are
\* the same whatever Math.random() returns during the call.  Nothing else in
\* the handlers is random: the path, the pressures and the segments drawn
\* are functions of the events, so two runs of the same events with the same
\* brush make the same stamps.
C19_Deterministic ==
    Drawn /\ args.b.jitter = 0 =>
        \A rnd \in RandomStreams :
            \E added \in {drawSplineSegment(args.b, rnd, args.p0, args.p1,
                                            args.p2, args.p3, args.pressure1,
                                            args.pressure2)} :
                SameStamps(<< >>, out.stamps, added)

\* a segment of four stamps or more drawn with jitter 0 while Math.random()
\* returned 0.9, 0.2, 0.5, ...
C19_Witness ==
    /\ Drawn
    /\ args.b.jitter = 0
    /\ out.rnd.step # 0
    /\ Len(out.stamps) >= 4
    /\ \A k \in DOMAIN out.stamps : out.stamps[k].jx = 0 /\ out.stamps[k].jy = 0

\* C20 as stated: onDrawStart in an active stroke leaves the path and the
\* pressures of that stroke as they are.
C20_StartKeepsStroke ==
    [][lastOp'.op = "start" /\ isDrawing =>
          /\ pathPoints' = pathPoints
          /\ pressurePoints' = pressurePoints]_vars

\* the call before this state was paintBrush
Stamped == args # << >> /\ args.fn = "paintBrush"

\* position of a sprite: the point on the curve and the jitter displacement
Position(sp) == <<sp.x, sp.y, sp.d, sp.jx, sp.jy, sp.jd>>

\* C21: one stamp request pushes exactly one sprite, the stamp, when the grain
\* texture of the brush is the empty texture; otherwise it pushes exactly two,
\* the grain sprite first and the stamp right after it, at the same position.
C21_OneOrTwoSprites ==
    Stamped =>
        IF brush.grainTexture = "EMPTY"
        THEN /\ Len(out.sprites) = 1
             /\ out.sprites[1].kind = "stamp"
        ELSE /\ Len(out.sprites) = 2
             /\ out.sprites[1].kind = "grain"
             /\ out.sprites[1].texture = brush.grainTexture
             /\ out.sprites[2].kind = "stamp"
             /\ Position(out.sprites[1]) = Position(out.sprites[2])

C21_Witness ==
    /\ Stamped
    /\ brush.grainTexture = "grain_02"
    /\ brush.jitter = 50 /\ brush.size = 50
    /\ out.rx = 9 /\ out.ry = 0
    /\ Len(out.sprites) = 2

\* no stroke is active and no flatten timer is pending
Steady == ~isDrawing /\ timers = {}

\* C22: as long as no rasterization fails, the live trail is empty whenever
\* no stroke is active and no flatten timer is pending: this is so after
\* mounting, and every step of a handler or timer other than a flatten whose
\* generateTexture throws keeps it so, whatever strokes and clear() calls came
\* before.
C22_SteadyTrailEmpty ==
    /\ (Steady => trail = << >>)
    /\ [][(/\ Steady => trail = << >>
           /\ ~(lastOp'.op = "flatten" /\ lastOp'.raster = "throws"))
          => (Steady' => trail' = << >>)]_vars

\* the steady state after a flatten that drained a stroke drawn on top of
\* earlier content
C22_Witness ==
    /\ Steady
    /\ lastOp.op = "flatten" /\ lastOp.raster = "ok"
    /\ lastOp.drained > 0
    /\ lastOp.prev > 0
    /\ trail = << >>

\* the pressures a segment can have, in tenths
Pressures == {0, 5, 10}

\* actualPressure of drawSplineSegment, in twentieths
AvgPressure(pressure1, pressure2) ==
    IF pressure1 + pressure2 > 0 THEN pressure1 + pressure2 ELSE 10

\* numSteps of the segment of the call with another brush or other pressures
StepsWith(b, pressure1, pressure2) ==
    numStepsOf(b, args.p0, args.p1, args.p2, args.p3, pressure1, pressure2)

\* C23 as stated: for a fixed segment the number of steps does not grow with
\* the spacing fraction, and does not shrink when the brush size grows or
\* when the two pressures grow.
C23_MoreForLarger ==
    Drawn =>
        /\ \A b \in Brushes :
               /\ b = [args.b EXCEPT !.spacing = b.spacing]
                  /\ b.spacing >= args.b.spacing
                  => StepsWith(b, args.pressure1, args.pressure2) <= out.numSteps
               /\ b = [args.b EXCEPT !.size = b.size] /\ b.size >= args.b.size
                  => StepsWith(b, args.pressure1, args.pressure2) >= out.numSteps
        /\ \A q1 \in Pressures, q2 \in Pressures :
               q1 >= args.pressure1 /\ q2 >= args.pressure2
               => StepsWith(args.b, q1, q2) >= out.numSteps

\* C23: for a fixed segment the number of steps does not grow with the
\* spacing fraction, with the brush size, or with the pressure the segment
\* is drawn at (the average of the two pressures, 0.5 when that is 0).
C23_FewerForLarger ==
    Drawn =>
        /\ \A b \in Brushes :
               /\ b = [args.b EXCEPT !.spacing = b.spacing]
                  /\ b.spacing >= args.b.spacing
                  => StepsWith(b, args.pressure1, args.pressure2) <= out.numSteps
               /\ b = [args.b EXCEPT !.size = b.size] /\ b.size >= args.b.size
                  => StepsWith(b, args.pressure1, args.pressure2) <= out.numSteps
        /\ \A q1 \in Pressures, q2 \in Pressures :
               AvgPressure(q1, q2) >= AvgPressure(args.pressure1, args.pressure2)
               => StepsWith(args.b, q1, q2) <= out.numSteps

\* a segment that gets fewer steps with a larger brush, with a larger spacing
\* fraction and with a larger pressure
C23_Witness ==
    /\ Drawn
    /\ args.b.size = 0
    /\ \E b \in Brushes :
           /\ b = [args.b EXCEPT !.size = b.size] /\ b.size > 0
           /\ StepsWith(b, 10, 10) < out.numSteps
           /\ StepsWith([b EXCEPT !.spacing = 100], 10, 10) < StepsWith(b, 10, 10)
           /\ StepsWith(b, 10, 10) < StepsWith(b, 5, 5)

\* the call before this state was a load in which PIXI.Assets.load rejected
\* for the grain texture
GrainLoadFailed ==
    /\ args # << >>
    /\ args.fn \in {"loadTexture", "loadGrainTexture"}
    /\ out.grain = "failed"

\* C24: after loadTexture(shapeUrl, grainUrl) or loadGrainTexture(grainUrl)
\* in which the load of the grain texture failed, the grain texture of the
\* brush is the empty texture, the promise of the call is resolved, and a
\* stamp request pushes the stamp alone.
C24_GrainFailureContained ==
    GrainLoadFailed =>
        /\ brush.grainTexture = "EMPTY"
        /\ out.settled = "resolved"
        /\ \A rx \in RandomValues, ry \in RandomValues :
               Len(paintBrush(brush, [x |-> 0, y |-> 0, d |-> 1],
                              10, 10, rx, ry)) = 1

ShapeTextures == {"brush_01", "fallback"}

\* C25: the input manager listens only when the brush has the loaded shape
\* texture or the fallback texture, so every stamp is made with one of the
\* two; when the load of the shape texture has failed, the brush has the
\* fallback texture, never the empty one, and onMount does not finish
\* without the handlers registered.
C25_TextureBeforeHandlers ==
    /\ lifecycle.inputManager = "listening" =>
           brush # << >> /\ brush.texture \in ShapeTextures
    /\ \A id \in DOMAIN sprites : sprites[id].texture \in ShapeTextures
    /\ lifecycle.shape = "failed" =>
           /\ lifecycle.onMount \in {"register", "done"}
           /\ brush.texture = "fallback"
    /\ lifecycle.onMount = "done" => lifecycle.inputManager = "listening"

\* a stroke stamped with the fallback texture after a failed load
C25_Witness ==
    /\ lifecycle.shape = "failed"
    /\ lifecycle.inputManager = "listening"
    /\ trail # << >>
    /\ \A id \in DOMAIN sprites : sprites[id].texture = "fallback"

\* a call of catmullRomLength has returned
Measured == out # << >> /\ args.fn = "catmullRomLength"

\* the length with s1 samples is at most the length this call returned, as
\* far as the square roots tell: each of the args.samples steps of the call
\* is a square root rounded down by less than one unit of 1 / out.d
AtMostReturned(s1) ==
    \E l1 \in {catmullRomLength(args.p0, args.p1, args.p2, args.p3, s1)} :
        l1 * out.d < (out.length + args.samples) * (2 * s1 * s1 * s1)

\* C26 as stated: the length estimated with fewer samples is never greater
\* than the length estimated with more.
C26_MonotoneInSamples ==
    Measured => \A s1 \in 1..(args.samples - 1) : AtMostReturned(s1)

\* C26: the length estimated with s1 samples is never greater than the
\* length estimated with a multiple of s1 samples.
C26_MonotoneInRefinement ==
    Measured =>
        \A s1 \in 1..(args.samples - 1) :
            args.samples % s1 = 0 => AtMostReturned(s1)

\* a curved segment measured with 4 samples, strictly longer than with 2
C26_Witness ==
    /\ Measured
    /\ args.samples = 4
    /\ args.p1 # args.p2 /\ args.p0 # args.p1 /\ args.p0 # args.p2
    /\ catmullRomLength(args.p0, args.p1, args.p2, args.p3, 2) * 8 < out.length

\* C27: a segment drawn with N steps makes exactly N + 1 calls of paintBrush,
\* one sprite each when the brush has no grain; call i is for the point of
\* the spline at t = i / N, its pressure is pressure1 + (pressure2 -
\* pressure1) * i / N, so the first call is at p1 with pressure1 and the last
\* at p2 with pressure2, and with no jitter the sprite is at that point.
C27_StampRequests ==
    Drawn =>
        \E n \in {out.numSteps} :
            /\ Len(out.requests) = n + 1
            /\ Len(out.stamps) = n + 1
            /\ \A i \in 0..n :
                   \E r \in {out.requests[i + 1]}, st \in {out.stamps[i + 1]} :
                       /\ r.pos = catmullRomPoint(i, n, args.p0, args.p1,
                                                  args.p2, args.p3)
                       /\ 10 * n * r.prn =
                              r.prd * (n * args.pressure1
                                       + i * (args.pressure2 - args.pressure1))
                       /\ <<st>> = paintBrush(args.b, r.pos, r.prn, r.prd,
                                              Random(out.rnd, 2 * i),
                                              Random(out.rnd, 2 * i + 1))
                       /\ args.b.jitter = 0 =>
                              /\ <<st.x, st.y, st.d>> = <<r.pos.x, r.pos.y, r.pos.d>>
                              /\ st.jx = 0 /\ st.jy = 0
                       /\ i = 0 => /\ r.pos.x = r.pos.d * args.p1.x
                                   /\ r.pos.y = r.pos.d * args.p1.y
                                   /\ 10 * r.prn = r.prd * args.pressure1
                       /\ i = n => /\ r.pos.x = r.pos.d * args.p2.x
                                   /\ r.pos.y = r.pos.d * args.p2.y
                                   /\ 10 * r.prn = r.prd * args.pressure2

\* a curved segment of several steps between two different pressures
C27_Witness ==
    /\ Drawn
    /\ out.numSteps >= 3
    /\ Len(out.requests) = out.numSteps + 1
    /\ args.b.jitter = 0
    /\ args.p1 # args.p2 /\ args.p0 # args.p1 /\ args.p3 # args.p2
    /\ args.pressure1 = 10 /\ args.pressure2 = 5
    /\ 2 * out.requests[out.numSteps + 1].prn = out.requests[1].prn

\* effectivePressure of a stamp request, in tenths
EffectivePressure == IF args.pressure > 0 THEN args.pressure ELSE 5

\* C28: the stamp of a request has width brush.size * effectivePressure; on
\* each axis it lies no further from the requested position than half of
\* stampSize * jitter, and exactly on it when the jitter is 0.
C28_SizeAndJitter ==
    Stamped =>
        \E st \in {out.sprites[Len(out.sprites)]} :
            /\ st.kind = "stamp"
            /\ 10 * st.w = st.wd * brush.size * EffectivePressure
            /\ st.x = st.d * args.x /\ st.y = st.d * args.y
            /\ 200 * Abs(st.jx) * st.wd <= st.jd * st.w * brush.jitter
            /\ 200 * Abs(st.jy) * st.wd <= st.jd * st.w * brush.jitter
            /\ brush.jitter = 0 => st.jx = 0 /\ st.jy = 0

\* a stamp displaced by the full half of the jitter on one axis and not at
\* all on the other, at a pressure of 0
C28_Witness ==
    /\ Stamped
    /\ brush.jitter = 100 /\ brush.size = 50
    /\ args.pressure = 0
    /\ out.rx = 0 /\ out.ry = 5
    /\ \E st \in {out.sprites[Len(out.sprites)]} :
           /\ 200 * Abs(st.jx) * st.wd = st.jd * st.w * brush.jitter
           /\ st.jx < 0 /\ st.jy = 0
           /\ st.w = 25 * st.wd

\* C29: no flatten runs while a stroke is active, so none drains sprites of
\* the live trail in the middle of a stroke, also when the stroke started
\* while the timer of the stroke before it was pending.
C29_NoFlattenMidStroke ==
    [][lastOp'.op = "flatten" =>
          /\ ~isDrawing
          /\ ~isDrawing']_vars

\* the last n of the sprites before are at the positions of the n sprites
\* that after has more
CopiesTail(before, after) ==
    \E n \in {Len(after) - Len(before)} :
        /\ n > 0
        /\ n <= Len(before)
        /\ \A k \in 1..n :
               Position(after[Len(before) + k])
                   = Position(before[Len(before) - n + k])

\* C30: the final segment of onDrawEnd is for a span no onDrawMove of the
\* stroke has stamped: the sprites it pushes are not at the very positions
\* of the sprites the last onDrawMove pushed, which are the last of the
\* trail.
C30_EndStampsNewSpan ==
    [][lastOp'.op = "end" /\ isDrawing /\ Len(pathPoints) > 1 =>
          \E before \in {TrailSprites}, after \in {TrailSprites'} :
              ~CopiesTail(before, after)]_vars

\* C31: when the event loop is fair to the timers, every onDrawEnd is
\* followed by a run of flatten, unless onDrawEnd is called again and again
\* for ever; a clear() in between changes nothing of this.
C31_EndLeadsToFlatten ==
    \/ []<><<OnDrawEnd>>_vars
    \/ (lastOp.op = "end" ~> lastOp.op = "flatten")

\* flatten has run the delay after the onDrawEnd of a stroke, a clear() in
\* between notwithstanding
C31_Witness ==
    /\ lastOp.op = "flatten"
    /\ endLog.flattens = 1
    /\ endLog.firedAt = FlattenDelay
    /\ permanentSprite.texture = "RenderTexture"
    /\ lastOp.drained = 0
    /\ lastOp.prev = 0
    /\ accepted >= 2

\* C32: in every state the path and the pressures have the same length, and
\* the pressure at each index is the one the pointer reported together with
\* the point at that index.
C32_PressureOfPoint ==
    /\ Len(pressurePoints) = Len(pathPoints)
    /\ \A k \in DOMAIN pathPoints :
           Sample(pathPoints[k].x, pathPoints[k].y, pressurePoints[k])
               \in PointerSamples

\* a stroke of three points whose second point was reported without pressure
C32_Witness ==
    /\ isDrawing
    /\ Len(pathPoints) = 3
    /\ pressurePoints = <<10, 0, 10>>
    /\ pathPoints[2] = Pt(4, 2)

\* what the input manager passes on for an event of the stage
Forwarded(type) ==
    CASE type = "pointerdown" -> "start"
      [] type = "pointermove" -> "move"
      [] type \in {"pointerup", "pointerupoutside"} -> "end"

\* C33: the input manager emits once for every pointer event dispatched
\* while it listens, 'start' for pointerdown, 'move' for pointermove, 'end'
\* for pointerup and pointerupoutside, with that event, before the next event
\* is dispatched and so in the order of arrival; after destroy() it emits
\* nothing.
C33_ForwardsInOrder ==
    /\ Len(out.emitted) <= Len(args)
    /\ \A k \in DOMAIN out.emitted :
           out.emitted[k] = [name |-> Forwarded(args[k]), event |-> k]
    /\ lifecycle.inputManager = "listening" => Len(out.emitted) = Len(args)
    /\ [][/\ lifecycle.inputManager = "destroyed" =>
              out'.emitted = out.emitted
          /\ lifecycle.inputManager = "listening" /\ args' # args =>
              Len(out'.emitted) = Len(out.emitted) + 1]_vars

\* pointerdown and pointerupoutside passed on, then destroy(), then a pointer
\* event that is not passed on
C33_Witness ==
    /\ lifecycle.inputManager = "destroyed"
    /\ Len(args) = 3
    /\ args[1] = "pointerdown" /\ args[2] = "pointerupoutside"
    /\ Len(out.emitted) = 2
    /\ out.emitted[2].name = "end"

\* C34: once onDestroy has run, the input manager does not listen for the
\* canvas (no start, move or end handler is registered) and no flatten is
\* pending, wherever onMount was when onDestroy ran.
C34_NothingAfterDestroy ==
    lifecycle.onDestroy = "done" =>
        /\ lifecycle.inputManager # "listening"
        /\ timers = {}

\* the sixteen hexadecimal digits, letters in either case
HexDigitChars ==
    {"0", "1", "2", "3", "4", "5", "6", "7", "8", "9",
     "a", "b", "c", "d", "e", "f", "A", "B", "C", "D", "E", "F"}

\* six hexadecimal digits, with or without a '#' in front
SixHexDigits(str) ==
    LET body == IF str # << >> /\ str[1] = "#" THEN Tail(str) ELSE str
    IN  /\ Len(body) = 6
        /\ Range(body) \subseteq HexDigitChars

\* C35: hexToRgb(rgbToHex(r, g, b)) is {r, g, b} for integers r, g, b of
\* 0..255, and hexToRgb returns null for a string that is not six
\* hexadecimal digits with an optional '#' in front.
C35_HexRoundTrip ==
    /\ out # << >> /\ args.fn = "rgbToHex"
           /\ {args.r, args.g, args.b} \subseteq 0..255 =>
           out.rgb = [r |-> args.r, g |-> args.g, b |-> args.b]
    /\ out # << >> /\ args.fn = "hexToRgb" /\ ~SixHexDigits(args.hex) =>
           out.rgb = << >>

\* a one-digit channel is padded and read back
C35_Witness ==
    /\ args = [fn |-> "rgbToHex", r |-> 255, g |-> 9, b |-> 16]
    /\ out = [hex |-> <<"#", "f", "f", "0", "9", "1", "0">>,
              rgb |-> [r |-> 255, g |-> 9, b |-> 16]]

====
